---- MODULE Spec2Model ----
(***************************************************************************)
(* Model of the training pipeline of python_intent_recognition:            *)
(* IntentTrainer (training/train.py): construction, the per-batch          *)
(* optimisation step, validation, the early-stopping / best-checkpoint     *)
(* policy, the restore-and-persist epilogue, and the linear warmup/decay   *)
(* learning-rate schedule the trainer installs; the DataLoader that cuts   *)
(* a dataset into batches; IntentEvaluator (evaluation/evaluate.py):       *)
(* metrics, confusion matrix, error ranking and export; IntentPredictor    *)
(* (inference/predict.py): the confidence threshold; and the four-step     *)
(* demo (examples/demo.py) that runs them one after the other.             *)
(*                                                                         *)
(* The encoder is opaque: its weights are identified by the number of      *)
(* in-place optimizer updates applied to the parameter tensors, and the    *)
(* losses it produces are inputs drawn from small sets.                    *)
(***************************************************************************)
EXTENDS Integers, Sequences, FiniteSets

(* ------------------------------ bounds -------------------------------- *)
MaxEpochs == 3
MaxPatience == 2
MaxBatches == 2
MaxWarmup == 2
MaxLoss == 2
MaxRate == 2
MaxData == 3
MaxBatchSize == 2
MaxPasses == 2
NumLabels == 3
MaxEval == 3
MaxGradNorm == 2
MaxConfidence == 2
MaxQueries == 2

(* ------------------------- floating-point losses ----------------------- *)
\* A Python float as far as the trainer looks at it: a finite value, +inf
\* (the initial best_val_loss) or NaN (a diverged loss).
Fin(n) == [kind |-> "fin", v |-> n]
Inf == [kind |-> "inf", v |-> 0]
NaN == [kind |-> "nan", v |-> 0]

\* The values validate() can return as avg_loss.
ValLossValues == {Fin(n) : n \in 1..MaxLoss} \cup {Inf, NaN}

\* The values validate() can return as accuracy (correct / total).
AccuracyValues == {0, 1}

\* The values outputs.loss.item() can take on a training batch.
BatchLossValues == {1}

\* Python's a < b on floats: false whenever either side is NaN.
FloatLt(a, b) ==
    /\ a.kind # "nan"
    /\ b.kind # "nan"
    /\ \/ a.kind = "fin" /\ b.kind = "inf"
       \/ a.kind = "fin" /\ b.kind = "fin" /\ a.v < b.v

(* --------------------------- rational numbers -------------------------- *)
\* Learning rates are kept exact, as num/den with den >= 1.
Rat(n, d) == [num |-> n, den |-> d]

\* a + b, not reduced.
RatAdd(a, b) == Rat(a.num * b.den + b.num * a.den, a.den * b.den)

Max(a, b) == IF a >= b THEN a ELSE b

(* ------------------------ learning-rate schedule ----------------------- *)
\* Mutant: the decay is normalised by the total step count instead of the
\* steps remaining after warmup.
LrLambdaDecayOverTotal(current_step, num_warmup_steps, num_training_steps) ==
    IF current_step < num_warmup_steps
    THEN Rat(current_step, Max(1, num_warmup_steps))
    ELSE Rat(Max(0, num_training_steps - current_step),
             Max(1, num_training_steps))

\* get_linear_schedule_with_warmup's multiplier of the base rate at a step.
LrLambda(current_step, num_warmup_steps, num_training_steps) ==
    IF current_step < num_warmup_steps
    THEN Rat(current_step, Max(1, num_warmup_steps))
    ELSE Rat(Max(0, num_training_steps - current_step),
             Max(1, num_training_steps - num_warmup_steps))

\* LambdaLR: the rate the scheduler writes into the optimizer at a step.
ScheduledLr(base_lr, current_step, num_warmup_steps, num_training_steps) ==
    Rat(base_lr * LrLambda(current_step, num_warmup_steps, num_training_steps).num,
        LrLambda(current_step, num_warmup_steps, num_training_steps).den)

\* Mutant: one epoch's worth of steps instead of the whole run's.
TotalStepsOneEpoch(len_train_loader, n_epochs) == len_train_loader

\* total_steps = len(train_loader) * num_epochs.
TotalSteps(len_train_loader, n_epochs) == len_train_loader * n_epochs

(* ----------------------------- DataLoader ------------------------------ *)
Min(a, b) == IF a <= b THEN a ELSE b

\* Mutant: drop_last=True, a trailing shorter batch is not counted.
LenLoaderDropLast(n, b) == n \div b

\* len(DataLoader(dataset, batch_size=b)) with the default drop_last=False.
LenLoader(n, b) == (n + b - 1) \div b

\* Mutant: drop_last=True, a trailing shorter batch is not yielded.
HasNextFullBatch(n, b, k) == (k + 1) * b <= n

\* The batch sampler has a k-th batch (k counted from 0) while indices remain.
HasNextBatch(n, b, k) == k * b < n

\* Number of examples in the k-th batch of a pass over n examples.
LoaderBatchSize(n, b, k) == Min(b, n - k * b)

\* The k-th batch of a pass: the next b indices of the sampler's order, or
\* all that remain.
BatchOf(order, b, k) == SubSeq(order, k * b + 1, Min((k + 1) * b, Len(order)))

\* SequentialSampler: the indices 0..n-1 in order.
SequentialOrder(n) == [i \in 1..n |-> i - 1]

\* RandomSampler: any permutation of the indices 0..n-1.
RandomOrders(n) ==
    {f \in [1..n -> 0..(n - 1)] : \A i, j \in 1..n : f[i] = f[j] => i = j}

(* ------------------------------- state --------------------------------- *)
VARIABLES
    train_size,               \* len(train_dataset)
    batch_size,               \* config['batch_size']
    num_epochs,               \* self.num_epochs
    early_stopping_patience,  \* self.early_stopping_patience
    warmup_steps,             \* self.warmup_steps
    learning_rate,            \* self.learning_rate (peak rate)
    len_train_loader,         \* len(self.train_loader)
    total_steps,              \* self.total_steps
    weights,                  \* contents of the encoder's parameter tensors
    optimizer_lr,             \* optimizer.param_groups[0]['lr']
    last_epoch,               \* scheduler.last_epoch (scheduler steps taken)
    history,                  \* self.history
    best_val_loss,            \* self.best_val_loss
    patience_counter,         \* self.patience_counter
    best_model_state,         \* self.best_model_state
    pc,                       \* position inside train()
    epoch,                    \* iterations of the epoch loop entered so far
    batch_idx,                \* batches of the current train_epoch processed
    total_loss,               \* local total_loss of train_epoch()
    val_loss,                 \* local val_loss of train()
    lr_used,                  \* rate applied by each optimizer.step(), in order
    batch_sizes,              \* size of each training batch processed, in order
    events,                   \* load_state_dict / save_model calls, in order
    persisted                 \* weights handed to save_model, in order

config == <<train_size, batch_size, num_epochs, early_stopping_patience,
            warmup_steps, learning_rate, len_train_loader, total_steps>>
trainer_vars == <<config, weights, optimizer_lr, last_epoch, history,
                  best_val_loss, patience_counter, best_model_state, pc,
                  epoch, batch_idx, total_loss, val_loss, lr_used,
                  batch_sizes, events, persisted>>

\* One DataLoader being iterated (train.py lines 124-137).
VARIABLES
    dl_size,                  \* len(dataset)
    dl_batch_size,            \* batch_size
    dl_shuffle,               \* shuffle
    dl_order,                 \* index order the sampler drew for this pass
    dl_active,                \* an iterator over the loader is open
    dl_pos,                   \* batches yielded by the open iterator
    dl_batches,               \* the batches yielded in this pass, in order
    dl_passes                 \* batch lists of the completed passes, in order

loader_vars == <<dl_size, dl_batch_size, dl_shuffle, dl_order, dl_active,
                 dl_pos, dl_batches, dl_passes>>

\* IntentEvaluator (evaluation/evaluate.py) and what it is called with.
VARIABLES
    label_keys,               \* list(classifier.label_to_id.keys())
    classifier_out,           \* what classifier.predict answers for each text
    texts,                    \* the caller's list of texts
    true_labels,              \* the caller's list of true labels
    results,                  \* self.results
    raised,                   \* exception evaluate_model ended with
    printed,                  \* what the evaluator has printed, in order
    error_analysis,           \* value returned by analyze_errors
    exported,                 \* metrics written by save_detailed_results
    ev_pc                     \* position inside evaluate_model()

evaluator_vars == <<label_keys, classifier_out, texts, true_labels, results,
                    raised, printed, error_analysis, exported, ev_pc>>

\* One iteration of train_epoch's batch loop, statement by statement
\* (train.py lines 192-217).
VARIABLES
    batch_pc,                 \* the statement of the loop body that is next
    grad_norm,                \* total norm of the parameters' gradients
    batch_ops                 \* the statements executed so far, in order

step_vars == <<batch_pc, grad_norm, batch_ops>>

\* The prediction loop of evaluate_predictions, iteration by iteration
\* (evaluate.py lines 75-85).
VARIABLES
    eb_batch_size,            \* batch_size
    eb_i,                     \* the loop variable i of the next iteration
    predict_calls,            \* the batch_texts of each classifier.predict call
    eb_predictions,           \* all_predictions
    eb_probabilities          \* all_probabilities

batch_eval_vars == <<eb_batch_size, eb_i, predict_calls, eb_predictions,
                     eb_probabilities>>

\* IntentPredictor (inference/predict.py) and one call of predict_single or
\* predict_batch.
VARIABLES
    pr_texts,                 \* the texts the caller has
    pr_answers,               \* what the classifier answers for each of them
    pr_threshold,             \* confidence_threshold of the call
    pr_results,               \* the results the call returned, in order
    pr_call                   \* the method called, once it has returned

predictor_vars == <<pr_texts, pr_answers, pr_threshold, pr_results, pr_call>>

\* The complete demo (examples/demo.py): the four steps of
\* run_complete_demo and what step 2 builds before training.
VARIABLES
    pl_pc,                    \* position inside run_complete_demo
    completed_steps,          \* completed_steps
    caught,                   \* the exception that ended a step, if any
    train_labels,             \* the label column of train.csv
    val_labels,               \* the label column of val.csv
    train_dataset,            \* IntentDataset(train_texts, train_labels, ...)
    val_dataset               \* IntentDataset(val_texts, val_labels, ...)

pipeline_vars == <<pl_pc, completed_steps, caught, train_labels, val_labels,
                   train_dataset, val_dataset>>

vars == <<trainer_vars, loader_vars, evaluator_vars, step_vars,
          batch_eval_vars, predictor_vars, pipeline_vars>>

\* What each component leaves alone.
outside_trainer == <<loader_vars, evaluator_vars, step_vars, batch_eval_vars,
                     predictor_vars, pipeline_vars>>
outside_loader == <<trainer_vars, evaluator_vars, step_vars, batch_eval_vars,
                    predictor_vars, pipeline_vars>>
outside_evaluator == <<trainer_vars, loader_vars, step_vars, batch_eval_vars,
                       predictor_vars, pipeline_vars>>
outside_steps == <<loader_vars, evaluator_vars, batch_eval_vars,
                   predictor_vars, pipeline_vars>>
outside_predictor == <<trainer_vars, loader_vars, evaluator_vars, step_vars,
                       batch_eval_vars, pipeline_vars>>
outside_batch_eval == <<trainer_vars, loader_vars, evaluator_vars, step_vars,
                        predictor_vars, pipeline_vars>>

(* ------------------------- checkpoint aliasing ------------------------- *)
\* best_model_state is None, or a dict of tensors.  A tensor either shares
\* its storage with the live parameters (storage "model") or owns a copy.
None == [storage |-> "none", value |-> 0]
IsSet(sd) == sd.storage # "none"

\* The tensor contents a state dict shows when it is read.
Contents(sd) == IF sd.storage = "model" THEN weights ELSE sd.value

\* model.state_dict().copy(): state_dict() returns the parameter tensors
\* themselves (detached views of the same storage) and dict.copy() is a
\* shallow copy, so the result still shares storage with the live weights.
StateDictCopy(w) == [storage |-> "model", value |-> 0]

(* -------------------------------- Init --------------------------------- *)
\* No DataLoader is being iterated on its own.
LoaderIdle ==
    /\ dl_size = 0
    /\ dl_batch_size = 1
    /\ dl_shuffle = FALSE
    /\ dl_order = <<>>
    /\ dl_active = FALSE
    /\ dl_pos = 0
    /\ dl_batches = <<>>
    /\ dl_passes = <<>>

\* No batch is in progress: the loop body is at its first statement.
StepsIdle ==
    /\ batch_pc = "zero_grad"
    /\ grad_norm = 0
    /\ batch_ops = <<>>

\* The prediction loop is not being followed on its own.
BatchEvalIdle ==
    /\ eb_batch_size = 32
    /\ eb_i = 0
    /\ predict_calls = <<>>
    /\ eb_predictions = <<>>
    /\ eb_probabilities = <<>>

\* No predictor has been constructed.
PredictorIdle ==
    /\ pr_texts = <<>>
    /\ pr_answers = <<>>
    /\ pr_threshold = 0
    /\ pr_results = <<>>
    /\ pr_call = "idle"

\* A dataset object that has not been constructed.
NoDataset == [state |-> "unbuilt", raised |-> "none", label_ids |-> <<>>]

\* No demo is running.
PipelineIdle ==
    /\ pl_pc = "idle"
    /\ completed_steps = 0
    /\ caught = "none"
    /\ train_labels = <<>>
    /\ val_labels = <<>>
    /\ train_dataset = NoDataset
    /\ val_dataset = NoDataset

\* An empty Python dict ({}), which is falsy.
EmptyDict == [empty |-> TRUE]

\* No evaluator has been constructed.
EvaluatorIdle ==
    /\ label_keys = <<>>
    /\ classifier_out = <<>>
    /\ texts = <<>>
    /\ true_labels = <<>>
    /\ results = EmptyDict
    /\ raised = "none"
    /\ printed = <<>>
    /\ error_analysis = EmptyDict
    /\ exported = <<>>
    /\ ev_pc = "idle"

\* IntentTrainer.__init__ from line 124 on: the loaders, the step count,
\* the optimizer and scheduler, the empty history and the early-stopping state.
TrainerConstructed ==
    /\ len_train_loader = LenLoader(train_size, batch_size)
    /\ total_steps = TotalSteps(len_train_loader, num_epochs)
    /\ weights = 0
    /\ last_epoch = 0
    /\ optimizer_lr = ScheduledLr(learning_rate, 0, warmup_steps, total_steps)
    /\ history = [train_loss |-> <<>>, val_loss |-> <<>>,
                  val_accuracy |-> <<>>, learning_rates |-> <<>>]
    /\ best_val_loss = Inf
    /\ patience_counter = 0
    /\ best_model_state = None
    /\ pc = "loop"
    /\ epoch = 0
    /\ batch_idx = 0
    /\ total_loss = 0
    /\ val_loss = Inf
    /\ lr_used = <<>>
    /\ batch_sizes = <<>>
    /\ events = <<>>
    /\ persisted = <<>>

\* A trainer constructed over a training set of one-example batches.
Init ==
    /\ train_size \in 1..MaxBatches
    /\ batch_size = 1
    /\ num_epochs \in 0..MaxEpochs
    /\ early_stopping_patience \in 0..MaxPatience
    /\ warmup_steps \in 0..MaxWarmup
    /\ learning_rate \in 1..MaxRate
    /\ TrainerConstructed
    /\ LoaderIdle
    /\ EvaluatorIdle
    /\ StepsIdle
    /\ BatchEvalIdle
    /\ PredictorIdle
    /\ PipelineIdle

(* ------------------------------ train() -------------------------------- *)
\* Mutant: a tie counts as an improvement (<= instead of <).
IsImprovementOrTie(v, best) == FloatLt(v, best) \/ v = best

\* Line 302: val_loss < self.best_val_loss.
IsImprovement(v, best) == FloatLt(v, best)

\* Mutant: stops one epoch late (> instead of >=).
ShouldStopLate(counter, patience) == counter > patience

\* Line 312: self.patience_counter >= self.early_stopping_patience.
ShouldStop(counter, patience) == counter >= patience

\* Mutant: the learning rate is not recorded.
StoreHistoryNoLr(h, tl, vl, va, lr) ==
    [h EXCEPT !.train_loss = Append(@, tl),
              !.val_loss = Append(@, vl),
              !.val_accuracy = Append(@, va)]

\* Lines 290-293: one record per epoch, appended to the four lists.
StoreHistory(h, tl, vl, va, lr) ==
    [h EXCEPT !.train_loss = Append(@, tl),
              !.val_loss = Append(@, vl),
              !.val_accuracy = Append(@, va),
              !.learning_rates = Append(@, lr)]

\* Mutant: the loop body runs once before the epoch count is tested.
StartEpochDoWhile ==
    /\ pc = "loop"
    /\ epoch < num_epochs \/ epoch = 0
    /\ epoch' = epoch + 1
    /\ batch_idx' = 0
    /\ total_loss' = 0
    /\ pc' = "train"
    /\ UNCHANGED <<config, weights, optimizer_lr, last_epoch, history,
                   best_val_loss, patience_counter, best_model_state,
                   val_loss, lr_used, batch_sizes, events, persisted>>

\* for epoch in range(self.num_epochs): the next iteration is entered and
\* train_epoch() starts.
StartEpoch ==
    /\ pc = "loop"
    /\ epoch < num_epochs
    /\ epoch' = epoch + 1
    /\ batch_idx' = 0
    /\ total_loss' = 0
    /\ pc' = "train"
    /\ UNCHANGED <<config, weights, optimizer_lr, last_epoch, history,
                   best_val_loss, patience_counter, best_model_state,
                   val_loss, lr_used, batch_sizes, events, persisted>>

\* The epoch loop ends because range(num_epochs) is exhausted.
LoopExhausted ==
    /\ pc = "loop"
    /\ epoch >= num_epochs
    /\ pc' = "restore"
    /\ UNCHANGED <<config, weights, optimizer_lr, last_epoch, history,
                   best_val_loss, patience_counter, best_model_state, epoch,
                   batch_idx, total_loss, val_loss, lr_used, batch_sizes, events,
                   persisted>>

\* One iteration of train_epoch's batch loop: forward, backward, clip,
\* optimizer.step() (in place, at the rate currently in the optimizer),
\* scheduler.step().
TrainBatch(loss) ==
    /\ pc = "train"
    /\ batch_idx < len_train_loader
    /\ total_loss' = total_loss + loss
    /\ lr_used' = Append(lr_used, optimizer_lr)
    /\ batch_sizes' = Append(batch_sizes,
                             LoaderBatchSize(train_size, batch_size, batch_idx))
    /\ weights' = weights + 1
    /\ last_epoch' = last_epoch + 1
    /\ optimizer_lr' = ScheduledLr(learning_rate, last_epoch + 1,
                                   warmup_steps, total_steps)
    /\ batch_idx' = batch_idx + 1
    /\ UNCHANGED <<config, history, best_val_loss, patience_counter,
                   best_model_state, pc, epoch, val_loss, events, persisted>>

\* train_epoch() returns total_loss / len(train_loader); validate() runs and
\* returns (vl, va); the epoch's record is stored in the history.
Validate(vl, va) ==
    /\ pc = "train"
    /\ batch_idx = len_train_loader
    /\ val_loss' = vl
    /\ history' = StoreHistory(history, Rat(total_loss, len_train_loader),
                               vl, va, optimizer_lr)
    /\ pc' = "check"
    /\ UNCHANGED <<config, weights, optimizer_lr, last_epoch, best_val_loss,
                   patience_counter, best_model_state, epoch, batch_idx,
                   total_loss, lr_used, batch_sizes, events, persisted>>

\* Lines 302-307: the epoch improved on the best validation loss.
NewBest ==
    /\ pc = "check"
    /\ IsImprovement(val_loss, best_val_loss)
    /\ best_val_loss' = val_loss
    /\ patience_counter' = 0
    /\ best_model_state' = StateDictCopy(weights)
    /\ pc' = "loop"
    /\ UNCHANGED <<config, weights, optimizer_lr, last_epoch, history, epoch,
                   batch_idx, total_loss, val_loss, lr_used, batch_sizes, events,
                   persisted>>

\* Lines 308-314: no improvement; the counter is incremented and the loop
\* is left when it has reached the patience.
NoImprovement ==
    /\ pc = "check"
    /\ ~IsImprovement(val_loss, best_val_loss)
    /\ patience_counter' = patience_counter + 1
    /\ pc' = IF ShouldStop(patience_counter + 1, early_stopping_patience)
             THEN "restore" ELSE "loop"
    /\ UNCHANGED <<config, weights, optimizer_lr, last_epoch, history,
                   best_val_loss, best_model_state, epoch, batch_idx,
                   total_loss, val_loss, lr_used, batch_sizes, events, persisted>>

\* Mutant: the best checkpoint is not loaded back before saving.
LoadBestSkipped ==
    /\ pc = "restore"
    /\ pc' = "save"
    /\ UNCHANGED <<config, weights, optimizer_lr, last_epoch, history,
                   best_val_loss, patience_counter, best_model_state, epoch,
                   batch_idx, total_loss, val_loss, lr_used, batch_sizes, events,
                   persisted>>

\* Lines 317-319: load_state_dict(best_model_state) when it is not None.
LoadBest ==
    /\ pc = "restore"
    /\ IF IsSet(best_model_state)
       THEN /\ weights' = Contents(best_model_state)
            /\ events' = Append(events, "load_state_dict")
       ELSE UNCHANGED <<weights, events>>
    /\ pc' = "save"
    /\ UNCHANGED <<config, optimizer_lr, last_epoch, history, best_val_loss,
                   patience_counter, best_model_state, epoch, batch_idx,
                   total_loss, val_loss, lr_used, batch_sizes, persisted>>

\* Line 322: self.classifier.save_model(save_path); train() then returns.
SaveModel ==
    /\ pc = "save"
    /\ persisted' = Append(persisted, weights)
    /\ events' = Append(events, "save_model")
    /\ pc' = "done"
    /\ UNCHANGED <<config, weights, optimizer_lr, last_epoch, history,
                   best_val_loss, patience_counter, best_model_state, epoch,
                   batch_idx, total_loss, val_loss, lr_used, batch_sizes>>

\* train() runs; no loader is iterated on its own and no evaluator exists.
Next ==
    \/ StartEpoch /\ UNCHANGED outside_trainer
    \/ LoopExhausted /\ UNCHANGED outside_trainer
    \/ /\ \E loss \in BatchLossValues : TrainBatch(loss)
       /\ UNCHANGED outside_trainer
    \/ /\ \E vl \in ValLossValues, va \in AccuracyValues : Validate(vl, va)
       /\ UNCHANGED outside_trainer
    \/ NewBest /\ UNCHANGED outside_trainer
    \/ NoImprovement /\ UNCHANGED outside_trainer
    \/ LoadBest /\ UNCHANGED outside_trainer
    \/ SaveModel /\ UNCHANGED outside_trainer

Spec == Init /\ [][Next]_vars

(* ======================= properties of train() ========================= *)
\* Python's a <= b on floats: false whenever either side is NaN.
FloatLe(a, b) == FloatLt(a, b) \/ (a = b /\ a.kind # "nan")

\* Epochs whose training, validation and history record are complete.
EpochsCompleted == IF pc = "train" THEN epoch - 1 ELSE epoch

\* The early-stopping check of the latest completed epoch has been taken.
AfterCheck == pc \in {"loop", "restore", "save", "done"}

\* The weights the encoder had when epoch e (1-based) finished training.
WeightsAtEndOfEpoch(e) == e * len_train_loader

\* The epoch whose validation measured the weights w.
EpochOfWeights(w) == w \div len_train_loader

\* The epoch that set best_val_loss: with strict improvement, the first
\* epoch whose validation loss equals it.
BestEpoch ==
    CHOOSE e \in 1..Len(history.val_loss) :
        /\ history.val_loss[e] = best_val_loss
        /\ \A j \in 1..(e - 1) : history.val_loss[j] # best_val_loss

AllFinite(losses) == \A i \in 1..Len(losses) : losses[i].kind = "fin"

\* C1 (as claimed): when train() with num_epochs >= 1 has persisted the
\* model, the validation loss measured for the persisted weights is <= the
\* validation loss of every epoch in the history.  Stated on runs whose
\* validation losses are all finite, where <= is the usual order.
C1_PersistedIsBest ==
    (pc = "done" /\ num_epochs >= 1 /\ AllFinite(history.val_loss)) =>
        \A e \in 1..Len(history.val_loss) :
            FloatLe(history.val_loss[EpochOfWeights(persisted[1])],
                    history.val_loss[e])

\* C2 (as claimed): best_model_state is a copy: whatever later optimizer
\* steps do, its contents stay the weights of the end of the epoch that set
\* the best validation loss, and those are the weights train() persists.
C2_SnapshotNotAliased ==
    IsSet(best_model_state) =>
        /\ Contents(best_model_state) = WeightsAtEndOfEpoch(BestEpoch)
        /\ pc = "done" => persisted[1] = WeightsAtEndOfEpoch(BestEpoch)

\* C3: the early-stopping check of an epoch.  On a strictly lower
\* validation loss: best_val_loss becomes it, best_model_state holds the
\* encoder weights and patience_counter is 0.  Otherwise best_val_loss and
\* best_model_state (the slot and what it shows) are as before the check
\* and patience_counter is one higher.
C3_CheckpointPolicy ==
    [][pc = "check" =>
        /\ val_loss = history.val_loss[Len(history.val_loss)]
        /\ IF FloatLt(val_loss, best_val_loss)
           THEN /\ best_val_loss' = val_loss
                /\ IsSet(best_model_state')
                /\ Contents(best_model_state)' = weights
                /\ patience_counter' = 0
           ELSE /\ best_val_loss' = best_val_loss
                /\ best_model_state' = best_model_state
                /\ Contents(best_model_state)' = Contents(best_model_state)
                /\ patience_counter' = patience_counter + 1]_vars

\* C3 witness: epoch 1 improved and set the checkpoint, epoch 2 tied and
\* was counted as no improvement.
C3_Witness ==
    /\ pc = "loop"
    /\ epoch = 2
    /\ IsSet(best_model_state)
    /\ patience_counter = 1
    /\ history.val_loss[2] = history.val_loss[1]

\* train() has left the epoch loop.
Stopped == pc \in {"restore", "save", "done"}

\* Parts of C4 that hold as claimed: the loop is left only from an epoch
\* boundary, never while the counter is below the patience, and after the
\* stop no batch is trained or validated.
C4_Common ==
    /\ (Stopped' /\ ~Stopped) => pc \in {"check", "loop"}
    /\ (pc = "check" /\ Stopped') =>
           patience_counter' >= early_stopping_patience
    /\ (pc = "loop" /\ Stopped') => epoch = num_epochs
    /\ Stopped => /\ Stopped'
                  /\ UNCHANGED <<history, lr_used, last_epoch, epoch>>

\* C4 (as claimed): whenever the counter is at the patience after an
\* epoch's check and configured epochs remain, train() stops there and the
\* remaining epochs are skipped.
C4_StopWhenCounterReachesPatience ==
    [][/\ (pc = "check" /\ epoch < num_epochs
                        /\ patience_counter' >= early_stopping_patience)
            => Stopped'
       /\ C4_Common]_vars

\* C4 (amended): whenever an epoch that did not improve brings the counter
\* to the patience or beyond, train() stops there; an improving epoch never
\* stops it.
C4_StopAfterNonImprovingEpoch ==
    [][/\ (pc = "check" /\ ~FloatLt(val_loss, best_val_loss)
                        /\ patience_counter' >= early_stopping_patience)
            => Stopped'
       /\ (pc = "check" /\ FloatLt(val_loss, best_val_loss)) => ~Stopped'
       /\ C4_Common]_vars

\* C4 witness: stopped early, with configured epochs left, by a counter
\* that climbed to a positive patience.
C4_Witness ==
    /\ pc = "restore"
    /\ epoch < num_epochs
    /\ early_stopping_patience >= 1
    /\ patience_counter = early_stopping_patience

\* C5 (as claimed): with patience 0 and epoch 2 tying epoch 1, training
\* stops after epoch 2 and the checkpoint, and so the persisted model, is
\* still the weights of epoch 1.
C5_TieKeepsFirstCheckpoint ==
    (/\ Stopped
     /\ early_stopping_patience = 0
     /\ Len(history.val_loss) >= 2
     /\ history.val_loss[1].kind = "fin"
     /\ history.val_loss[2] = history.val_loss[1]) =>
        /\ Len(history.val_loss) = 2
        /\ patience_counter = 1
        /\ IsSet(best_model_state)
        /\ Contents(best_model_state) = WeightsAtEndOfEpoch(1)
        /\ pc = "done" => persisted = <<WeightsAtEndOfEpoch(1)>>

\* C6: on every stop the best checkpoint, when set, is loaded into the
\* encoder first and the model is persisted after that, once, with the
\* contents of the checkpoint; when it is unset nothing is loaded and the
\* weights persisted are the current ones, as every optimizer step so far
\* left them.  Nothing is persisted before the stop.
C6_RestoreThenPersist ==
    /\ (pc = "done" /\ IsSet(best_model_state)) =>
           /\ events = <<"load_state_dict", "save_model">>
           /\ persisted = <<Contents(best_model_state)>>
    /\ (pc = "done" /\ ~IsSet(best_model_state)) =>
           /\ events = <<"save_model">>
           /\ persisted = <<Len(lr_used)>>
    /\ (pc = "save" /\ IsSet(best_model_state)) =>
           events = <<"load_state_dict">>
    /\ pc # "done" => persisted = <<>>

\* C6 witness: an early stop with a checkpoint set, the model persisted.
C6_Witness ==
    /\ pc = "done"
    /\ epoch < num_epochs
    /\ IsSet(best_model_state)
    /\ Len(persisted) = 1

\* C7 (as claimed): once an epoch has completed and its check is taken,
\* best_model_state is set, whatever validation loss the epoch produced.
C7_CheckpointSetAfterFirstEpoch ==
    (AfterCheck /\ epoch >= 1) => IsSet(best_model_state)

HistoryLengthsAgree ==
    /\ Len(history.train_loss) = EpochsCompleted
    /\ Len(history.val_loss) = EpochsCompleted
    /\ Len(history.val_accuracy) = EpochsCompleted
    /\ Len(history.learning_rates) = EpochsCompleted

IsPrefix(a, b) == Len(a) <= Len(b) /\ SubSeq(b, 1, Len(a)) = a

\* C8: the four history lists always have the same length, the number of
\* epochs completed so far (the epoch that triggers early stopping
\* included), and every step keeps the entries already there and adds at
\* most one record.
C8_HistoryAppendOnly ==
    [][/\ HistoryLengthsAgree
       /\ HistoryLengthsAgree'
       /\ IsPrefix(history.train_loss, history.train_loss')
       /\ IsPrefix(history.val_loss, history.val_loss')
       /\ IsPrefix(history.val_accuracy, history.val_accuracy')
       /\ IsPrefix(history.learning_rates, history.learning_rates')
       /\ Len(history.val_loss') <= Len(history.val_loss) + 1]_vars

\* C8 witness: training stopped early after two epochs and the history
\* holds the record of the epoch that triggered the stop.
C8_Witness ==
    /\ pc = "restore"
    /\ epoch = 2
    /\ epoch < num_epochs
    /\ Len(history.learning_rates) = 2

(* ================== properties of the learning rate ==================== *)
\* Equality and sum of exact rates.
RatEq(a, b) == a.num * b.den = b.num * a.den
RatOfInt(n) == Rat(n, 1)

\* The rates the scheduler has written into the optimizer so far: entry
\* s + 1 is the rate at step count s, for s = 0 .. last_epoch.
LrTrace == Append(lr_used, optimizer_lr)

\* The rate at step count s, once the run has got there.
RateAt(s) == LrTrace[s + 1]

\* The rate bends at step s: the increments before and after s differ.
BreakpointAt(s) ==
    ~RatEq(RatAdd(RateAt(s - 1), RateAt(s + 1)), RatAdd(RateAt(s), RateAt(s)))

\* Steps strictly inside the part of [0, total_steps] the run has covered.
InteriorSteps == 1..(last_epoch - 1)

\* What C9 says of a schedule, on the steps the run has reached.
ScheduleShape ==
    /\ RatEq(RateAt(0), RatOfInt(0))
    /\ last_epoch >= warmup_steps =>
           RatEq(RateAt(warmup_steps), RatOfInt(learning_rate))
    /\ last_epoch >= total_steps => RatEq(RateAt(total_steps), RatOfInt(0))
    /\ \A s \in InteriorSteps : BreakpointAt(s) <=> s = warmup_steps

\* C9 (as claimed): for every accepted configuration with
\* 0 <= warmup_steps <= total_steps: rate(0) = 0, rate(warmup_steps) is the
\* peak rate, rate(total_steps) = 0, and the rate is piecewise-linear in the
\* step count with its only interior breakpoint at warmup_steps.  Stated
\* for the configurations that train at all (total_steps >= 1).
C9_ScheduleAllWarmups ==
    (0 <= warmup_steps /\ warmup_steps <= total_steps /\ total_steps >= 1)
        => ScheduleShape

\* C9 (amended): the same for 0 < warmup_steps < total_steps.  Without
\* warmup (warmup_steps = 0, total_steps >= 1) the rate starts at the peak
\* and is linear with no interior breakpoint.
C9_ScheduleInteriorWarmup ==
    /\ (0 < warmup_steps /\ warmup_steps < total_steps) => ScheduleShape
    /\ (warmup_steps = 0 /\ total_steps >= 1) =>
           /\ RatEq(RateAt(0), RatOfInt(learning_rate))
           /\ last_epoch >= total_steps =>
                  RatEq(RateAt(total_steps), RatOfInt(0))
           /\ \A s \in InteriorSteps : ~BreakpointAt(s)

\* C9 witness: a run with warmup strictly inside the schedule has stepped
\* the scheduler through the whole of it.
C9_Witness ==
    /\ 0 < warmup_steps
    /\ warmup_steps < total_steps
    /\ last_epoch = total_steps
    /\ pc = "done"

\* The schedule fixed at construction: the rate at step count s for the
\* configured number of epochs.
FullSchedule(s) ==
    ScheduledLr(learning_rate, s, warmup_steps, len_train_loader * num_epochs)

ScheduleIsFixed ==
    /\ total_steps = len_train_loader * num_epochs
    /\ \A i \in 1..Len(lr_used) : lr_used[i] = FullSchedule(i - 1)
    /\ Stopped => Len(lr_used) = epoch * len_train_loader

\* C10: total_steps is (batches per epoch) x num_epochs from construction
\* on and no step changes it or the schedule's parameters; the rates the
\* optimizer steps used are the first values of that full schedule, and
\* when training has stopped after k epochs there are k x (batches per
\* epoch) of them.
C10_ScheduleFixedAtConstruction ==
    [][/\ ScheduleIsFixed'
       /\ UNCHANGED <<total_steps, warmup_steps, learning_rate,
                      len_train_loader, num_epochs>>]_vars

\* C10 witness: training stopped early after k >= 1 of more epochs, under
\* a schedule with warmup, having used k x (batches per epoch) rates.
C10_Witness ==
    /\ pc = "done"
    /\ 1 <= epoch
    /\ epoch < num_epochs
    /\ warmup_steps >= 1
    /\ Len(lr_used) = epoch * len_train_loader
    /\ last_epoch < total_steps

(* ====================== iterating a DataLoader ========================= *)
\* A trainer that is constructed and left alone.
TrainerParked ==
    /\ train_size = 1
    /\ batch_size = 1
    /\ num_epochs = 0
    /\ early_stopping_patience = 0
    /\ warmup_steps = 0
    /\ learning_rate = 1
    /\ TrainerConstructed

\* DataLoader(dataset, batch_size=..., shuffle=..., num_workers=0).
\* shuffle=True builds a RandomSampler, whose constructor raises ValueError
\* ("num_samples should be a positive integer value") for an empty
\* dataset: no shuffling loader over zero examples is ever constructed.
\* shuffle=False builds a SequentialSampler, which accepts an empty dataset.
InitLoader ==
    /\ dl_size \in 0..MaxData
    /\ dl_batch_size \in 1..MaxBatchSize
    /\ dl_shuffle \in BOOLEAN
    /\ dl_shuffle => dl_size >= 1
    /\ dl_order = <<>>
    /\ dl_active = FALSE
    /\ dl_pos = 0
    /\ dl_batches = <<>>
    /\ dl_passes = <<>>
    /\ TrainerParked
    /\ EvaluatorIdle
    /\ StepsIdle
    /\ BatchEvalIdle
    /\ PredictorIdle
    /\ PipelineIdle

\* iter(loader): the sampler fixes the index order of the pass.
StartPass ==
    /\ ~dl_active
    /\ Len(dl_passes) < MaxPasses
    /\ dl_order' \in IF dl_shuffle THEN RandomOrders(dl_size)
                                  ELSE {SequentialOrder(dl_size)}
    /\ dl_active' = TRUE
    /\ dl_pos' = 0
    /\ dl_batches' = <<>>
    /\ UNCHANGED <<dl_size, dl_batch_size, dl_shuffle, dl_passes>>

\* next(iterator) returns the next batch.
YieldBatch ==
    /\ dl_active
    /\ HasNextBatch(dl_size, dl_batch_size, dl_pos)
    /\ dl_batches' = Append(dl_batches, BatchOf(dl_order, dl_batch_size, dl_pos))
    /\ dl_pos' = dl_pos + 1
    /\ UNCHANGED <<dl_size, dl_batch_size, dl_shuffle, dl_order, dl_active,
                   dl_passes>>

\* next(iterator) raises StopIteration: the pass is over.
EndPass ==
    /\ dl_active
    /\ ~HasNextBatch(dl_size, dl_batch_size, dl_pos)
    /\ dl_passes' = Append(dl_passes, dl_batches)
    /\ dl_active' = FALSE
    /\ UNCHANGED <<dl_size, dl_batch_size, dl_shuffle, dl_order, dl_pos,
                   dl_batches>>

NextLoader ==
    \/ StartPass /\ UNCHANGED outside_loader
    \/ YieldBatch /\ UNCHANGED outside_loader
    \/ EndPass /\ UNCHANGED outside_loader

SpecLoader == InitLoader /\ [][NextLoader]_vars

\* The batches of a pass, concatenated in iteration order.
RECURSIVE Flatten(_)
Flatten(bs) == IF bs = <<>> THEN <<>> ELSE Head(bs) \o Flatten(Tail(bs))

\* Number of positions of a sequence that hold x.
Occurrences(sq, x) == Cardinality({i \in 1..Len(sq) : sq[i] = x})

\* C11: every completed pass over N examples with batch size B has
\* ceil(N / B) batches, all of size B except possibly a shorter, non-empty
\* last one; without shuffling the batches concatenate to 0..N-1 in order
\* and every pass is the same; with shuffling every index occurs exactly
\* once in the pass.
C11_BatchesPartitionDataset ==
    \A p \in 1..Len(dl_passes) :
        LET pass == dl_passes[p]
            flat == Flatten(pass)
        IN /\ Len(pass) * dl_batch_size >= dl_size
           /\ (Len(pass) - 1) * dl_batch_size < dl_size
           /\ \A k \in 1..Len(pass) :
                  /\ Len(pass[k]) >= 1
                  /\ Len(pass[k]) <= dl_batch_size
                  /\ k < Len(pass) => Len(pass[k]) = dl_batch_size
           /\ Len(flat) = dl_size
           /\ \A i \in 0..(dl_size - 1) : Occurrences(flat, i) = 1
           /\ ~dl_shuffle =>
                  /\ \A i \in 1..dl_size : flat[i] = i - 1
                  /\ pass = dl_passes[1]

C11_Witness ==
    /\ Len(dl_passes) = 2
    /\ dl_size = 3
    /\ dl_batch_size = 2
    /\ dl_shuffle
    /\ Len(dl_passes[1]) = 2
    /\ Len(dl_passes[1][2]) = 1
    /\ dl_passes[1] # dl_passes[2]

(* ============== training on 14 examples in batches of 4 ================ *)
\* IntentTrainer(classifier, train_dataset, val_dataset, batch_size=4,
\* num_epochs=1, ...) over a 14-example training set.
InitFourteen ==
    /\ train_size = 14
    /\ batch_size = 4
    /\ num_epochs = 1
    /\ early_stopping_patience \in 0..MaxPatience
    /\ warmup_steps \in 0..MaxWarmup
    /\ learning_rate \in 1..MaxRate
    /\ TrainerConstructed
    /\ LoaderIdle
    /\ EvaluatorIdle
    /\ StepsIdle
    /\ BatchEvalIdle
    /\ PredictorIdle
    /\ PipelineIdle

SpecFourteen == InitFourteen /\ [][Next]_vars

\* C12: with 14 training examples, batch_size 4 and one epoch, total_steps
\* is 4, the epoch processes exactly the batches of sizes 4, 4, 4, 2 with
\* one optimizer step each, train() is never stuck before it returns, and
\* when it has returned the history holds exactly one record.
C12_FourteenExamplesFourBatches ==
    /\ total_steps = 4
    /\ pc = "train" =>
           /\ batch_sizes = SubSeq(<<4, 4, 4, 2>>, 1, batch_idx)
           /\ Len(lr_used) = batch_idx
    /\ (pc # "train" /\ epoch = 1) =>
           /\ batch_sizes = <<4, 4, 4, 2>>
           /\ Len(lr_used) = 4
    /\ pc # "done" => ENABLED Next
    /\ pc = "done" =>
           /\ epoch = 1
           /\ Len(history.train_loss) = 1
           /\ Len(history.val_loss) = 1
           /\ Len(history.val_accuracy) = 1
           /\ Len(history.learning_rates) = 1

C12_Witness ==
    /\ pc = "done"
    /\ train_size = 14
    /\ batch_size = 4
    /\ batch_sizes = <<4, 4, 4, 2>>
    /\ Len(history.val_loss) = 1

(* ========================= IntentEvaluator ============================= *)
\* The intent labels in their canonical order (package __init__).
INTENT_LABELS ==
    <<"salary_inquiry", "meeting_room_booking", "leave_request",
      "directory_search", "company_info", "employee_info", "employee_search">>

\* The same names in Python's string order, which is how numpy sorts them.
SortedNames ==
    <<"company_info", "directory_search", "employee_info", "employee_search",
      "leave_request", "meeting_room_booking", "salary_inquiry">>

\* Position of x in a sequence that holds it.
IndexOf(sq, x) == CHOOSE i \in 1..Len(sq) : sq[i] = x

Range(sq) == {sq[i] : i \in 1..Len(sq)}

\* sklearn's unique_labels(y_true, y_pred): the labels that occur, sorted.
UniqueLabels(y_true, y_pred) ==
    LET present(x) == x \in Range(y_true) \cup Range(y_pred)
    IN SelectSeq(SortedNames, present)

\* Number of examples whose true label is t and predicted label is q.
Cell(y_true, y_pred, t, q) ==
    Cardinality({i \in 1..Len(y_true) : y_true[i] = t /\ y_pred[i] = q})

Support(y_true, c) == Cardinality({i \in 1..Len(y_true) : y_true[i] = c})

\* A ratio with zero_division=0: 0 when the denominator is 0.
Ratio(n, d) == IF d = 0 THEN Rat(0, 1) ELSE Rat(n, d)

\* precision, recall, F1 and support of one class.
ClassMetrics(y_true, y_pred, c) ==
    LET tp == Cell(y_true, y_pred, c, c)
        np == Support(y_pred, c)
        nt == Support(y_true, c)
    IN [precision |-> Ratio(tp, np),
        recall |-> Ratio(tp, nt),
        f1_score |-> Ratio(2 * tp, np + nt),
        support |-> nt]

RECURSIVE RatSum(_)
RatSum(sq) == IF sq = <<>> THEN Rat(0, 1)
              ELSE RatAdd(Head(sq), RatSum(Tail(sq)))

\* average='weighted': the per-class scores of the labels that occur,
\* weighted by support.
WeightedAverage(y_true, y_pred, field) ==
    LET labels == UniqueLabels(y_true, y_pred)
        terms == [k \in 1..Len(labels) |->
                     LET m == ClassMetrics(y_true, y_pred, labels[k])
                     IN Rat(m.support * m[field].num, m[field].den)]
        total == RatSum(terms)
    IN Rat(total.num, total.den * Len(y_true))

\* accuracy_score: fraction of examples predicted correctly.
AccuracyScore(y_true, y_pred) ==
    Rat(Cardinality({i \in 1..Len(y_true) : y_true[i] = y_pred[i]}),
        Len(y_true))

\* classification_report without labels=: it works on unique_labels and
\* refuses target_names of a different length.
ReportRaises(y_true, y_pred, target_names) ==
    Len(UniqueLabels(y_true, y_pred)) # Len(target_names)

\* classification_report(..., target_names, output_dict=True,
\* zero_division=0): the k-th target name is the key of the row of the k-th
\* label in sorted order; then the weighted average row.
ClassificationReport(y_true, y_pred, target_names) ==
    LET labels == UniqueLabels(y_true, y_pred)
        weighted == [precision |-> WeightedAverage(y_true, y_pred, "precision"),
                     recall |-> WeightedAverage(y_true, y_pred, "recall"),
                     f1_score |-> WeightedAverage(y_true, y_pred, "f1_score"),
                     support |-> Len(y_true)]
    IN [key \in Range(target_names) \cup {"weighted avg"} |->
           IF key = "weighted avg"
           THEN weighted
           ELSE ClassMetrics(y_true, y_pred,
                             labels[IndexOf(target_names, key)])]

\* Mutant: rows are predicted labels and columns true labels.
ConfusionMatrixTransposed(y_true, y_pred, labels) ==
    [i \in 1..Len(labels) |->
        [j \in 1..Len(labels) |-> Cell(y_true, y_pred, labels[j], labels[i])]]

\* confusion_matrix(y_true, y_pred, labels=labels): cell [i][j] counts the
\* examples with true label labels[i] predicted as labels[j].
ConfusionMatrix(y_true, y_pred, labels) ==
    [i \in 1..Len(labels) |->
        [j \in 1..Len(labels) |-> Cell(y_true, y_pred, labels[i], labels[j])]]

\* The classifier is sure of its answer on every other text and less sure
\* on the texts between: the probability, in tenths, it gives to each class
\* it does not predict for text t.
Level(t) == 1 + (t % 2)

\* The batch sizes evaluate_predictions is called with: the default, and
\* one that splits the evaluation set.
EvalBatchSizes == {2, 32}

\* The probability dict of a prediction, in tenths: every class but the
\* predicted one gets `level`, the predicted one gets the rest.
ProbabilityDict(keys, c, level) ==
    [x \in Range(keys) |-> IF x = c THEN 10 - (Len(keys) - 1) * level
                                    ELSE level]

\* One answer of classifier.predict(text, return_probabilities=True).
Prediction(keys, c, level) ==
    [predicted_intent |-> c, probabilities |-> ProbabilityDict(keys, c, level)]

\* classifier.predict(batch_texts, return_probabilities=True)
Predict(out, batch_texts) == [k \in 1..Len(batch_texts) |-> out[batch_texts[k]]]

\* Lines 79-85: the predictions of texts[i:i + b], texts[i + b:i + 2b], ...
\* collected in order.
RECURSIVE PredictFrom(_, _, _, _)
PredictFrom(out, txts, b, i) ==
    IF i >= Len(txts) THEN <<>>
    ELSE Predict(out, SubSeq(txts, i + 1, Min(i + b, Len(txts))))
             \o PredictFrom(out, txts, b, i + b)

\* IntentEvaluator(classifier) and the evaluation set it is about to be
\* called with.
InitEvaluator ==
    /\ label_keys = SubSeq(INTENT_LABELS, 1, NumLabels)
    /\ \E n \in 1..MaxEval :
           /\ texts = [i \in 1..n |-> i]
           /\ true_labels \in [1..n -> Range(label_keys)]
           /\ classifier_out \in
                  {[t \in 1..n |-> Prediction(label_keys, p[t], Level(t))] :
                      p \in [1..n -> Range(label_keys)]}
    /\ results = EmptyDict
    /\ raised = "none"
    /\ printed = <<>>
    /\ error_analysis = EmptyDict
    /\ exported = <<>>
    /\ ev_pc = "evaluate"
    /\ TrainerParked
    /\ LoaderIdle
    /\ StepsIdle
    /\ BatchEvalIdle
    /\ PredictorIdle
    /\ PipelineIdle

\* evaluate_predictions(texts, true_labels, batch_size)
EvaluatePredictions(b) ==
    /\ ev_pc = "evaluate"
    /\ LET batch_predictions == PredictFrom(classifier_out, texts, b, 0)
           all_predictions == [k \in 1..Len(batch_predictions) |->
                                  batch_predictions[k].predicted_intent]
           all_probabilities == [k \in 1..Len(batch_predictions) |->
                                    batch_predictions[k].probabilities]
           class_report == ClassificationReport(true_labels, all_predictions,
                                                label_keys)
       IN IF ReportRaises(true_labels, all_predictions, label_keys)
          THEN /\ raised' = "ValueError"
               /\ ev_pc' = "failed"
               /\ UNCHANGED results
          ELSE /\ results' =
                     [accuracy |-> AccuracyScore(true_labels, all_predictions),
                      precision |-> WeightedAverage(true_labels,
                                        all_predictions, "precision"),
                      recall |-> WeightedAverage(true_labels,
                                     all_predictions, "recall"),
                      f1_score |-> WeightedAverage(true_labels,
                                       all_predictions, "f1_score"),
                      classification_report |-> class_report,
                      confusion_matrix |->
                          ConfusionMatrix(true_labels, all_predictions,
                                          label_keys),
                      true_labels |-> true_labels,
                      predicted_labels |-> all_predictions,
                      probabilities |-> all_probabilities,
                      texts |-> texts]
               /\ ev_pc' = "summary"
               /\ UNCHANGED raised
    /\ UNCHANGED <<label_keys, classifier_out, texts, true_labels, printed,
                   error_analysis, exported>>

\* The per-intent rows the evaluator reads out of the stored report.
PerClassRows(res, keys) ==
    [intent \in Range(keys) \cap DOMAIN res.classification_report |->
        res.classification_report[intent]]

\* print_evaluation_summary()
PrintEvaluationSummary ==
    /\ ev_pc = "summary"
    /\ printed' = Append(printed,
           [what |-> "summary",
            accuracy |-> results.accuracy,
            precision |-> results.precision,
            recall |-> results.recall,
            f1_score |-> results.f1_score,
            per_class |-> PerClassRows(results, label_keys),
            weighted_avg |-> results.classification_report["weighted avg"]])
    /\ ev_pc' = "plot_matrix"
    /\ UNCHANGED <<label_keys, classifier_out, texts, true_labels, results,
                   raised, error_analysis, exported>>

\* The sum of a sequence of numbers.
RECURSIVE SumSeq(_)
SumSeq(sq) == IF sq = <<>> THEN 0 ELSE Head(sq) + SumSeq(Tail(sq))

\* The message every reporting method prints, before returning, when
\* self.results is still empty.
NoResultsMessage == [what |-> "no_results"]

\* Lines 178-179: cm.astype('float') / cm.sum(axis=1)[:, np.newaxis]. Each
\* cell is divided by the sum of its row; in a row without any example the
\* division is 0.0 / 0 and numpy gives nan.
NormalizeRows(cm) ==
    [i \in 1..Len(cm) |->
        [j \in 1..Len(cm[i]) |->
            IF SumSeq(cm[i]) = 0 THEN NaN ELSE Rat(cm[i][j], SumSeq(cm[i]))]]

\* plot_confusion_matrix(save_path), as evaluate_model calls it (line 429)
\* with a path inside output_path. Lines 169-171 return early without
\* results. The heatmap shows the row-normalised matrix, not the counts.
\* savefig (line 201) does not create directories and output_path is only
\* created by save_detailed_results later on, so when the directory does
\* not exist yet the call ends in FileNotFoundError and evaluate_model with
\* it. plt.show() (line 204) returns at once on a non-interactive backend.
PlotConfusionMatrix(dir_exists) ==
    /\ ev_pc = "plot_matrix"
    /\ IF results = EmptyDict
       THEN /\ printed' = Append(printed, NoResultsMessage)
            /\ ev_pc' = "plot_metrics"
            /\ UNCHANGED <<exported, raised>>
       ELSE IF dir_exists
       THEN /\ exported' = Append(exported,
                   [file |-> "confusion_matrix.png",
                    content |->
                        [labels |-> label_keys,
                         cells |-> NormalizeRows(results.confusion_matrix)]])
            /\ ev_pc' = "plot_metrics"
            /\ UNCHANGED <<printed, raised>>
       ELSE /\ raised' = "FileNotFoundError"
            /\ ev_pc' = "plot_failed"
            /\ UNCHANGED <<printed, exported>>
    /\ UNCHANGED <<label_keys, classifier_out, texts, true_labels, results,
                   error_analysis>>

\* plot_per_class_metrics(save_path), called (line 430) with a path in the
\* directory plot_confusion_matrix has just written to.
PlotPerClassMetrics ==
    /\ ev_pc = "plot_metrics"
    /\ IF results = EmptyDict
       THEN /\ printed' = Append(printed, NoResultsMessage)
            /\ UNCHANGED exported
       ELSE /\ exported' = Append(exported,
                   [file |-> "per_class_metrics.png",
                    content |-> PerClassRows(results, label_keys)])
            /\ UNCHANGED printed
    /\ ev_pc' = "errors"
    /\ UNCHANGED <<label_keys, classifier_out, texts, true_labels, results,
                   raised, error_analysis>>

\* Lines 288-307: one record per example whose prediction differs from its
\* true label, in the order of the evaluation set.
FindErrors(res) ==
    LET wrong(i) == res.true_labels[i] # res.predicted_labels[i]
        idx == SelectSeq([i \in 1..Len(res.true_labels) |-> i], wrong)
    IN [k \in 1..Len(idx) |->
           LET i == idx[k]
               probs == res.probabilities[i]
               confidence == probs[res.predicted_labels[i]]
               true_confidence == probs[res.true_labels[i]]
           IN [index |-> i - 1,
               text |-> res.texts[i],
               true_intent |-> res.true_labels[i],
               predicted_intent |-> res.predicted_labels[i],
               predicted_confidence |-> confidence,
               true_confidence |-> true_confidence,
               confidence_diff |-> confidence - true_confidence]]

\* Mutant: the sort without reverse=True.
SortAscBy(sq, field) ==
    LET pos(i) == Cardinality({j \in 1..Len(sq) : sq[j][field] < sq[i][field]})
                  + Cardinality({j \in 1..(i - 1) : sq[j][field] = sq[i][field]})
                  + 1
    IN [p \in 1..Len(sq) |-> sq[CHOOSE i \in 1..Len(sq) : pos(i) = p]]

\* list.sort(key=lambda x: x[field], reverse=True): larger keys first, and
\* records with equal keys keep their order (the sort is stable).
SortDescBy(sq, field) ==
    LET pos(i) == Cardinality({j \in 1..Len(sq) : sq[j][field] > sq[i][field]})
                  + Cardinality({j \in 1..(i - 1) : sq[j][field] = sq[i][field]})
                  + 1
    IN [p \in 1..Len(sq) |-> sq[CHOOSE i \in 1..Len(sq) : pos(i) = p]]

\* The key f"{true_intent} -> {predicted_intent}" of an error, kept as the
\* pair it is built from.
PatternOf(error) == <<error.true_intent, error.predicted_intent>>

\* Mutant: a pattern is recorded but its occurrences are not added up.
ErrorPatternsSeenOnce(errors) ==
    LET first(k) == \A j \in 1..(k - 1) :
                        PatternOf(errors[j]) # PatternOf(errors[k])
        idx == SelectSeq([k \in 1..Len(errors) |-> k], first)
    IN [q \in 1..Len(idx) |->
           [pattern |-> PatternOf(errors[idx[q]]), count |-> 1]]

\* Lines 324-327: the dict of pattern counts; a dict keeps its keys in the
\* order of first insertion, so it is a sequence of (pattern, count) items.
ErrorPatterns(errors) ==
    LET first(k) == \A j \in 1..(k - 1) :
                        PatternOf(errors[j]) # PatternOf(errors[k])
        idx == SelectSeq([k \in 1..Len(errors) |-> k], first)
    IN [q \in 1..Len(idx) |->
           [pattern |-> PatternOf(errors[idx[q]]),
            count |-> Cardinality({k \in 1..Len(errors) :
                          PatternOf(errors[k]) = PatternOf(errors[idx[q]])})]]

\* sq[:n]
Take(sq, n) == SubSeq(sq, 1, Min(n, Len(sq)))

\* Mutant: the misclassified examples are taken out of the stored result.
AnalyzeErrorsConsuming ==
    /\ ev_pc = "errors"
    /\ LET errors == SortDescBy(FindErrors(results), "predicted_confidence")
           kept(t) == \A k \in 1..Len(errors) : errors[k].text # t
       IN /\ printed' = Append(printed, [what |-> "errors",
                                         total |-> Len(errors)])
          /\ error_analysis' = [errors |-> errors,
                                error_patterns |-> ErrorPatterns(errors),
                                total_errors |-> Len(errors),
                                error_rate |-> Rat(Len(errors),
                                                   Len(results.true_labels))]
          /\ results' = [results EXCEPT !.texts = SelectSeq(@, kept)]
    /\ ev_pc' = "save"
    /\ UNCHANGED <<label_keys, classifier_out, texts, true_labels, raised,
                   exported>>

\* analyze_errors() with the default top_k
AnalyzeErrors ==
    /\ ev_pc = "errors"
    /\ IF results = EmptyDict
       THEN /\ error_analysis' = EmptyDict
            /\ printed' = Append(printed, [what |-> "no results"])
       ELSE LET errors == SortDescBy(FindErrors(results),
                                     "predicted_confidence")
                error_patterns == ErrorPatterns(errors)
            IN /\ printed' = Append(printed,
                      [what |-> "errors",
                       total |-> Len(errors),
                       top_errors |-> Take(errors, 10),
                       top_patterns |->
                           Take(SortDescBy(error_patterns, "count"), 5)])
               /\ error_analysis' =
                      [errors |-> errors,
                       error_patterns |-> error_patterns,
                       total_errors |-> Len(errors),
                       error_rate |-> Rat(Len(errors),
                                          Len(results.true_labels))]
    /\ ev_pc' = "save"
    /\ UNCHANGED <<label_keys, classifier_out, texts, true_labels, results,
                   raised, exported>>

\* Lines 341-397: the three files save_detailed_results writes.
DetailedResults(res, keys) ==
    <<[file |-> "evaluation_metrics.json",
       content |-> [overall_metrics |->
                        [accuracy |-> res.accuracy,
                         precision |-> res.precision,
                         recall |-> res.recall,
                         f1_score |-> res.f1_score],
                    per_class_metrics |->
                        PerClassRows(res, keys)]],
      [file |-> "detailed_predictions.csv",
       content |-> [i \in 1..Len(res.texts) |->
                       [text |-> res.texts[i],
                        true_label |-> res.true_labels[i],
                        predicted_label |-> res.predicted_labels[i],
                        correct |-> res.true_labels[i]
                                        = res.predicted_labels[i],
                        prob |-> res.probabilities[i]]]],
      [file |-> "confusion_matrix.csv",
       content |-> [labels |-> keys,
                    cells |-> res.confusion_matrix]]>>

\* save_detailed_results(output_dir)
SaveDetailedResults ==
    /\ ev_pc = "save"
    /\ exported' = exported \o DetailedResults(results, label_keys)
    /\ ev_pc' = "done"
    /\ UNCHANGED <<label_keys, classifier_out, texts, true_labels, results,
                   raised, printed, error_analysis>>

\* evaluate_model(): the evaluation pipeline, one call after the other.
NextEvaluator ==
    \/ /\ \E b \in EvalBatchSizes : EvaluatePredictions(b)
       /\ UNCHANGED outside_evaluator
    \/ PrintEvaluationSummary /\ UNCHANGED outside_evaluator
    \/ /\ \E dir_exists \in BOOLEAN : PlotConfusionMatrix(dir_exists)
       /\ UNCHANGED outside_evaluator
    \/ PlotPerClassMetrics /\ UNCHANGED outside_evaluator
    \/ AnalyzeErrors /\ UNCHANGED outside_evaluator
    \/ SaveDetailedResults /\ UNCHANGED outside_evaluator

SpecEvaluator == InitEvaluator /\ [][NextEvaluator]_vars

\* evaluate_predictions has returned a result.
Evaluated == ev_pc \notin {"evaluate", "failed"}

\* What the classifier predicted for the evaluation set, text by text.
PredictedLabels == [i \in 1..Len(texts) |-> classifier_out[texts[i]].predicted_intent]

\* Examples of the evaluation set with true label t predicted as q.
Examples(t, q) ==
    {i \in 1..Len(texts) : true_labels[i] = t /\ PredictedLabels[i] = q}

\* C13: in a returned result, the per-class entry stored under an intent
\* name holds the support, precision, recall and F1 of that same intent, and
\* so does the entry exported under that name.
C13_EntryHoldsItsOwnIntent ==
    Evaluated =>
        \A intent \in Range(label_keys) :
            LET entry == results.classification_report[intent]
                tp == Cardinality(Examples(intent, intent))
                np == Cardinality({i \in 1..Len(texts) :
                                      PredictedLabels[i] = intent})
                nt == Cardinality({i \in 1..Len(texts) :
                                      true_labels[i] = intent})
            IN /\ entry.support = nt
               /\ entry.precision.num * np = tp * entry.precision.den
               /\ entry.recall.num * nt = tp * entry.recall.den
               /\ entry.f1_score.num * (np + nt) = 2 * tp * entry.f1_score.den
               /\ ev_pc = "done" =>
                      exported[Len(exported) - 2].content
                          .per_class_metrics[intent] = entry

\* C14: evaluate_predictions never raises, whatever intents are absent from
\* the true labels, the predictions or both.
C14_EvaluateNeverRaises == raised # "ValueError" /\ ev_pc # "failed"

\* C15: in a returned result the cells of the confusion matrix sum to the
\* number of evaluated examples, and row i sums to the number of examples
\* whose true label is the i-th intent.
C15_MatrixSums ==
    Evaluated =>
        LET m == results.confusion_matrix
        IN /\ SumSeq([i \in 1..Len(label_keys) |-> SumSeq(m[i])]) = Len(texts)
           /\ \A i \in 1..Len(label_keys) :
                  SumSeq(m[i]) = Cardinality({e \in 1..Len(texts) :
                                     true_labels[e] = label_keys[i]})

C15_Witness ==
    /\ Evaluated
    /\ Len(texts) = 3
    /\ results.confusion_matrix[1][2] = 2
    /\ results.confusion_matrix[3][3] = 1
    /\ SumSeq(results.confusion_matrix[2]) = 0

\* C16: once evaluate_predictions has ended there is a confusion matrix
\* with one row and one column per intent in canonical order, whatever the
\* evaluation set contains; an intent with zero support has an all-zero row
\* and an intent never predicted an all-zero column.
C16_MatrixCoversEveryIntent ==
    ev_pc # "evaluate" =>
        /\ results # EmptyDict
        /\ DOMAIN results.confusion_matrix = 1..Len(label_keys)
        /\ \A i \in 1..Len(label_keys) :
               /\ DOMAIN results.confusion_matrix[i] = 1..Len(label_keys)
               /\ \A j \in 1..Len(label_keys) :
                      results.confusion_matrix[i][j] =
                          Cardinality(Examples(label_keys[i], label_keys[j]))

\* C17: for true labels [A, A, B] predicted as [A, B, B], evaluation
\* returns a result whose confusion matrix has A->A = 1, A->B = 1, B->B = 1
\* and 0 elsewhere, whose accuracy is 2/3, and in which the recall of A and
\* the precision of B are 1/2.
C17_TwoOfThreeCorrect ==
    \A a, b \in Range(label_keys) :
        (/\ a # b
         /\ ev_pc # "evaluate"
         /\ true_labels = <<a, a, b>>
         /\ PredictedLabels = <<a, b, b>>) =>
            /\ results # EmptyDict
            /\ \A i, j \in 1..Len(label_keys) :
                   results.confusion_matrix[i][j] =
                       IF <<label_keys[i], label_keys[j]>> \in {<<a, a>>, <<b, b>>, <<a, b>>}
                       THEN 1 ELSE 0
            /\ RatEq(results.accuracy, Rat(2, 3))
            /\ RatEq(results.classification_report[a].recall, Rat(1, 2))
            /\ RatEq(results.classification_report[b].precision, Rat(1, 2))

\* analyze_errors has returned.
Analyzed == ev_pc \in {"save", "done"}

\* C18: analyze_errors returns exactly one record per misclassified example
\* and none for a correct one; a record holds the example's text, true and
\* predicted intent, the probability of the predicted and of the true class
\* and their difference; the list is ordered by non-increasing probability
\* of the predicted class.
C18_ErrorsRankedByConfidence ==
    Analyzed =>
        LET errs == error_analysis.errors
        IN /\ \A i \in 1..Len(texts) :
                  Cardinality({k \in 1..Len(errs) : errs[k].index = i - 1})
                      = IF true_labels[i] # PredictedLabels[i] THEN 1 ELSE 0
           /\ \A k \in 1..Len(errs) :
                  LET i == errs[k].index + 1
                      probs == classifier_out[texts[i]].probabilities
                  IN /\ i \in 1..Len(texts)
                     /\ errs[k].text = texts[i]
                     /\ errs[k].true_intent = true_labels[i]
                     /\ errs[k].predicted_intent = PredictedLabels[i]
                     /\ errs[k].predicted_confidence = probs[PredictedLabels[i]]
                     /\ errs[k].true_confidence = probs[true_labels[i]]
                     /\ errs[k].confidence_diff =
                            probs[PredictedLabels[i]] - probs[true_labels[i]]
           /\ \A k \in 1..(Len(errs) - 1) :
                  errs[k].predicted_confidence >= errs[k + 1].predicted_confidence

C18_Witness ==
    /\ Analyzed
    /\ Len(texts) = 3
    /\ Len(error_analysis.errors) = 2
    /\ error_analysis.errors[1].index > error_analysis.errors[2].index
    /\ error_analysis.errors[1].predicted_confidence
           > error_analysis.errors[2].predicted_confidence

\* The (true, predicted) pair of an error record.
PairOf(e) == <<e.true_intent, e.predicted_intent>>

\* Number of returned error records with the pair pr.
ErrorsWith(pr) ==
    Cardinality({k \in 1..Len(error_analysis.errors) :
                    PairOf(error_analysis.errors[k]) = pr})

\* Each returned pattern count is the number of error records with that
\* pair, every pair of an error record has one count, and the counts sum to
\* total_errors.
PatternCountsRight ==
    LET pats == error_analysis.error_patterns
    IN /\ \A q \in 1..Len(pats) :
              /\ pats[q].count = ErrorsWith(pats[q].pattern)
              /\ pats[q].count >= 1
              /\ \A r \in 1..Len(pats) : pats[r].pattern = pats[q].pattern => r = q
       /\ SumSeq([q \in 1..Len(pats) |-> pats[q].count])
              = error_analysis.total_errors
       /\ error_analysis.total_errors = Len(error_analysis.errors)

\* A sequence of (pattern, count) items is in non-increasing order of count.
ByFrequency(items) ==
    \A q \in 1..(Len(items) - 1) : items[q].count >= items[q + 1].count

\* C19 as stated: the pattern counts analyze_errors returns are sorted
\* descending by frequency, each count is the number of error records with
\* that pair, and the counts sum to total_errors.
C19_ReturnedPatternsByFrequency ==
    Analyzed => PatternCountsRight /\ ByFrequency(error_analysis.error_patterns)

\* C19, amended: each returned pattern count is the number of error records
\* with that pair and the counts sum to total_errors; the returned counts
\* are in the order in which the patterns first occur in the ranked error
\* list, and it is the list of (at most five) patterns analyze_errors prints
\* that is sorted descending by frequency.
C19_PatternCountsPrintedByFrequency ==
    Analyzed =>
        LET pats == error_analysis.error_patterns
            errs == error_analysis.errors
            firstAt(q) == CHOOSE k \in 1..Len(errs) :
                              /\ PairOf(errs[k]) = pats[q].pattern
                              /\ \A j \in 1..(k - 1) :
                                     PairOf(errs[j]) # pats[q].pattern
            shown == printed[Len(printed)].top_patterns
        IN /\ PatternCountsRight
           /\ \A q \in 1..(Len(pats) - 1) : firstAt(q) < firstAt(q + 1)
           /\ ByFrequency(shown)
           /\ Len(shown) = IF Len(pats) <= 5 THEN Len(pats) ELSE 5
           /\ Range(shown) \subseteq Range(pats)

C19_Witness ==
    /\ Analyzed
    /\ Len(error_analysis.error_patterns) = 2
    /\ error_analysis.error_patterns[1].count = 1
    /\ error_analysis.error_patterns[2].count = 2
    /\ printed[Len(printed)].top_patterns[1].count = 2

\* C20: no evaluator operation changes the classifier's weights or label
\* mapping, what the classifier answers, or the caller's texts and true
\* labels; and once evaluate_predictions has returned a result, the
\* operations that follow leave that result as it is.
C20_EvaluatorReadOnly ==
    [][/\ UNCHANGED <<weights, label_keys, classifier_out, texts, true_labels>>
       /\ ev_pc # "evaluate" => results' = results]_vars

C20_Witness ==
    /\ ev_pc = "done"
    /\ results # EmptyDict
    /\ results.texts = texts
    /\ results.true_labels = true_labels
    /\ error_analysis.total_errors = 2
    /\ Len(printed) = 2
    /\ Len(exported) = 5

(* ================= failures and limits of train() ====================== *)
\* The first epoch whose recorded validation loss is inf or NaN (0: none).
FirstNonFiniteEpoch ==
    IF AllFinite(history.val_loss) THEN 0
    ELSE CHOOSE e \in 1..Len(history.val_loss) :
             /\ history.val_loss[e].kind # "fin"
             /\ AllFinite(SubSeq(history.val_loss, 1, e - 1))

\* C21 (as claimed): a validation pass that produces a non-finite loss ends
\* the run: no later epoch is entered and nothing is persisted.
C21_NonFiniteLossAborts ==
    FirstNonFiniteEpoch # 0 =>
        /\ epoch = FirstNonFiniteEpoch
        /\ persisted = <<>>

EmptyHistory == [train_loss |-> <<>>, val_loss |-> <<>>,
                 val_accuracy |-> <<>>, learning_rates |-> <<>>]

\* C22: with num_epochs = 0, train() takes no optimizer or scheduler step,
\* leaves the weights at their initial values, persists exactly those
\* weights, ends with an empty history and never stops before returning.
C22_ZeroEpochsTolerated ==
    num_epochs = 0 =>
        /\ lr_used = <<>>
        /\ last_epoch = 0
        /\ weights = 0
        /\ epoch = 0
        /\ history = EmptyHistory
        /\ best_model_state = None
        /\ pc \in {"loop", "restore", "save", "done"}
        /\ pc # "done" => (persisted = <<>> /\ ENABLED Next)
        /\ pc = "done" => (persisted = <<0>> /\ events = <<"save_model">>)

\* train() with num_epochs = 0 has returned.
C22_Witness ==
    /\ num_epochs = 0
    /\ pc = "done"
    /\ persisted = <<weights>>
    /\ history = EmptyHistory

\* C27 (as claimed): once an epoch's early-stopping check is taken,
\* best_val_loss is the minimum of the validation losses in the history: it
\* is one of them and it is <= each of them.
C27_BestIsMinimumOfHistory ==
    (AfterCheck /\ epoch >= 1) =>
        /\ \E i \in 1..Len(history.val_loss) :
               history.val_loss[i] = best_val_loss
        /\ \A i \in 1..Len(history.val_loss) :
               FloatLe(best_val_loss, history.val_loss[i])

\* The best validation loss after the first k epochs of the history, by the
\* strict comparison of line 302 starting from float('inf').
RECURSIVE BestAfter(_)
BestAfter(k) ==
    IF k = 0 THEN Inf
    ELSE IF FloatLt(history.val_loss[k], BestAfter(k - 1))
         THEN history.val_loss[k]
         ELSE BestAfter(k - 1)

\* The most recent epoch of the history that strictly improved on the best
\* validation loss before it (0: no epoch has).
LastImprovingEpoch ==
    LET improving == {e \in 1..Len(history.val_loss) :
                         FloatLt(history.val_loss[e], BestAfter(e - 1))}
    IN  IF improving = {} THEN 0
        ELSE CHOOSE e \in improving : \A d \in improving : d <= e

\* After an epoch's check, the counter is the number of epochs completed
\* since the most recent improving epoch (since the start if there is none).
CounterCountsEpochsSinceImprovement ==
    (AfterCheck /\ epoch >= 1) =>
        patience_counter = epoch - LastImprovingEpoch

\* Another epoch is about to start.
AnotherEpochStarts == pc = "loop" /\ epoch >= 1 /\ epoch < num_epochs

\* C28 (as claimed): the counter counts the epochs since the most recent
\* improving epoch, and whenever another epoch is about to start it is
\* strictly below the patience.
C28_CounterBelowPatienceAtEpochStart ==
    /\ CounterCountsEpochsSinceImprovement
    /\ AnotherEpochStarts => patience_counter < early_stopping_patience

\* C28 (amended): the counter counts the epochs since the most recent
\* improving epoch, and whenever another epoch is about to start it is 0
\* (the last epoch improved) or strictly below the patience.
C28_CounterZeroOrBelowPatienceAtEpochStart ==
    /\ CounterCountsEpochsSinceImprovement
    /\ AnotherEpochStarts =>
           \/ patience_counter = 0
           \/ patience_counter < early_stopping_patience

\* C28 witness: an epoch improved, a later one did not, and a further epoch
\* is about to start with the counter at 1.
C28_Witness ==
    /\ AnotherEpochStarts
    /\ LastImprovingEpoch >= 1
    /\ patience_counter = 1
    /\ epoch = LastImprovingEpoch + 1

(* --------------------------- termination ------------------------------- *)
\* train() runs in one thread of the interpreter: whenever a next statement
\* exists it is eventually executed.  The schedule plays no part in the
\* control flow, so the runs are taken without warmup at the smallest rate.
InitLive ==
    /\ Init
    /\ warmup_steps = 0
    /\ learning_rate = 1

SpecLive == InitLive /\ [][Next]_vars /\ WF_vars(Next)

\* C29: whatever validation losses the epochs produce, train() returns, it
\* runs at most num_epochs epochs, and it persists the model exactly once,
\* as its last step, after the last epoch it ran.
C29_TerminatesAndPersistsOnce ==
    /\ <>(pc = "done")
    /\ [](/\ epoch <= num_epochs
          /\ Len(history.val_loss) <= num_epochs
          /\ Len(persisted) = (IF pc = "done" THEN 1 ELSE 0)
          /\ pc = "done" => ~ENABLED Next)
    /\ [][persisted' # persisted =>
              /\ pc = "save" /\ pc' = "done"
              /\ EpochsCompleted = epoch
              /\ UNCHANGED <<epoch, history, weights>>]_vars

\* train() has returned after running every configured epoch, the last two
\* of them without improvement.
C29_Witness ==
    /\ pc = "done"
    /\ epoch = num_epochs
    /\ num_epochs >= 2
    /\ patience_counter >= 1
    /\ Len(persisted) = 1

(* ============== train_epoch's loop body, statement by statement ========= *)
\* Mutant: gradients are not clipped before the optimizer step.
NextBatchStepNoClip(p) ==
    CASE p = "zero_grad" -> "forward"
      [] p = "forward" -> "backward"
      [] p = "backward" -> "optimizer"
      [] p = "clip" -> "optimizer"
      [] p = "optimizer" -> "scheduler"
      [] p = "scheduler" -> "zero_grad"

\* The statement that follows p in the loop body (lines 194-217); after
\* scheduler.step() the loop goes to the next batch.
NextBatchStep(p) ==
    CASE p = "zero_grad" -> "forward"
      [] p = "forward" -> "backward"
      [] p = "backward" -> "clip"
      [] p = "clip" -> "optimizer"
      [] p = "optimizer" -> "scheduler"
      [] p = "scheduler" -> "zero_grad"

\* The statement at batch_pc runs on the loader's next batch.
AtStatement(p) ==
    /\ pc = "train"
    /\ batch_idx < len_train_loader
    /\ batch_pc = p
    /\ batch_pc' = NextBatchStep(p)
    /\ batch_ops' = Append(batch_ops, p)

\* Line 194: self.optimizer.zero_grad().
ZeroGrad ==
    /\ AtStatement("zero_grad")
    /\ grad_norm' = 0
    /\ UNCHANGED trainer_vars

\* Lines 197-205: the forward pass returns the loss, which is added to
\* total_loss.
Forward(loss) ==
    /\ AtStatement("forward")
    /\ total_loss' = total_loss + loss
    /\ UNCHANGED <<config, weights, optimizer_lr, last_epoch, history,
                   best_val_loss, patience_counter, best_model_state, pc,
                   epoch, batch_idx, val_loss, lr_used, batch_sizes, events,
                   persisted, grad_norm>>

\* Line 208: loss.backward() fills the gradients; g is their total norm.
Backward(g) ==
    /\ AtStatement("backward")
    /\ grad_norm' = grad_norm + g
    /\ UNCHANGED trainer_vars

\* Line 211: clip_grad_norm_(parameters, max_norm=1.0) rescales the
\* gradients when their total norm exceeds 1.0.
ClipGradNorm ==
    /\ AtStatement("clip")
    /\ grad_norm' = Min(grad_norm, 1)
    /\ UNCHANGED trainer_vars

\* Line 214: self.optimizer.step() updates the parameters in place at the
\* rate currently set in the optimizer.
OptimizerStep ==
    /\ AtStatement("optimizer")
    /\ weights' = weights + 1
    /\ lr_used' = Append(lr_used, optimizer_lr)
    /\ UNCHANGED <<config, optimizer_lr, last_epoch, history, best_val_loss,
                   patience_counter, best_model_state, pc, epoch, batch_idx,
                   total_loss, val_loss, batch_sizes, events, persisted,
                   grad_norm>>

\* Line 217: self.scheduler.step() sets the rate of the next step; the
\* loop then takes the next batch from the loader.
SchedulerStep ==
    /\ AtStatement("scheduler")
    /\ last_epoch' = last_epoch + 1
    /\ optimizer_lr' = ScheduledLr(learning_rate, last_epoch + 1,
                                   warmup_steps, total_steps)
    /\ batch_sizes' = Append(batch_sizes,
                             LoaderBatchSize(train_size, batch_size, batch_idx))
    /\ batch_idx' = batch_idx + 1
    /\ UNCHANGED <<config, weights, history, best_val_loss, patience_counter,
                   best_model_state, pc, epoch, total_loss, val_loss, lr_used,
                   events, persisted, grad_norm>>

\* train() with train_epoch's loop body taken one statement at a time.
NextSteps ==
    \/ StartEpoch /\ UNCHANGED outside_trainer
    \/ LoopExhausted /\ UNCHANGED outside_trainer
    \/ ZeroGrad /\ UNCHANGED outside_steps
    \/ /\ \E loss \in BatchLossValues : Forward(loss)
       /\ UNCHANGED outside_steps
    \/ /\ \E g \in 0..MaxGradNorm : Backward(g)
       /\ UNCHANGED outside_steps
    \/ ClipGradNorm /\ UNCHANGED outside_steps
    \/ OptimizerStep /\ UNCHANGED outside_steps
    \/ SchedulerStep /\ UNCHANGED outside_steps
    \/ /\ \E vl \in ValLossValues, va \in AccuracyValues : Validate(vl, va)
       /\ UNCHANGED outside_trainer
    \/ NewBest /\ UNCHANGED outside_trainer
    \/ NoImprovement /\ UNCHANGED outside_trainer
    \/ LoadBest /\ UNCHANGED outside_trainer
    \/ SaveModel /\ UNCHANGED outside_trainer

SpecSteps == InitLive /\ [][NextSteps]_vars

\* The loop body of one batch, in the claimed order.
BatchSequence == <<"zero_grad", "forward", "backward", "clip", "optimizer",
                   "scheduler">>

\* Batches whose loop body has been executed completely.
BatchesCompleted == EpochsCompleted * len_train_loader
                        + (IF pc = "train" THEN batch_idx ELSE 0)

\* 1-based position of statement p in the claimed order.
PositionOf(p) == CHOOSE i \in 1..Len(BatchSequence) : BatchSequence[i] = p

\* C25: the statements executed are whole repetitions of the sequence zero
\* gradients, forward and loss, backward, clip, optimizer step, scheduler
\* step, followed by the part of it executed for the batch in progress; the
\* optimizer steps only on gradients of norm at most 1.0; and once k epochs
\* are complete the optimizer and the scheduler have each taken
\* k * len(train_loader) steps.
C25_BatchStatementsInOrder ==
    [][/\ Len(batch_ops') =
              Len(BatchSequence) * BatchesCompleted' + PositionOf(batch_pc') - 1
       /\ \A i \in 1..Len(batch_ops') :
              batch_ops'[i] = BatchSequence[((i - 1) % Len(BatchSequence)) + 1]
       /\ lr_used' # lr_used => (grad_norm <= 1 /\ batch_pc = "optimizer")
       /\ batch_pc' = "zero_grad" =>
              /\ Len(lr_used') = BatchesCompleted'
              /\ last_epoch' = BatchesCompleted'
       /\ pc' # "train" =>
              /\ batch_pc' = "zero_grad"
              /\ Len(lr_used') = epoch' * len_train_loader
              /\ last_epoch' = epoch' * len_train_loader]_vars

\* C25 witness: two epochs of two batches are complete and the gradient of
\* the last batch had to be clipped.
C25_Witness ==
    /\ pc = "check"
    /\ epoch = 2
    /\ len_train_loader = 2
    /\ Len(batch_ops) = 4 * Len(BatchSequence)
    /\ grad_norm = 1

(* ========== evaluate_predictions' prediction loop, step by step ========= *)
\* Mutant: a last batch shorter than batch_size is dropped.
BatchTextsFullOnly(txts, b, i) ==
    IF i + b <= Len(txts) THEN SubSeq(txts, i + 1, i + b) ELSE <<>>

\* Line 80: texts[i:i + batch_size]; a slice ends at the end of the list.
BatchTexts(txts, b, i) == SubSeq(txts, i + 1, Min(i + b, Len(txts)))

\* The batch sizes the loop is followed with: the sizes up to one more than
\* the largest evaluation set, and the default.
LoopBatchSizes == (1..(MaxEval + 1)) \cup {32}

\* An evaluator about to run evaluate_predictions(texts, true_labels, b):
\* the texts are handed over last first, so that no text sits at the
\* position of its own identifier.
InitEvalBatches ==
    /\ label_keys = SubSeq(INTENT_LABELS, 1, NumLabels)
    /\ \E n \in 1..MaxEval :
           /\ texts = [i \in 1..n |-> n + 1 - i]
           /\ true_labels = [i \in 1..n |-> label_keys[((i - 1) % NumLabels) + 1]]
           /\ classifier_out \in
                  {[t \in 1..n |-> Prediction(label_keys, p[t], Level(t))] :
                      p \in [1..n -> Range(label_keys)]}
    /\ results = EmptyDict
    /\ raised = "none"
    /\ printed = <<>>
    /\ error_analysis = EmptyDict
    /\ exported = <<>>
    /\ ev_pc = "evaluate"
    /\ eb_batch_size \in LoopBatchSizes
    /\ eb_i = 0
    /\ predict_calls = <<>>
    /\ eb_predictions = <<>>
    /\ eb_probabilities = <<>>
    /\ TrainerParked
    /\ LoaderIdle
    /\ StepsIdle
    /\ PredictorIdle
    /\ PipelineIdle

\* Lines 79-85: one iteration of for i in range(0, len(texts), batch_size):
\* the slice is predicted and the answers extend the two lists.
PredictSlice ==
    /\ ev_pc = "evaluate"
    /\ eb_i < Len(texts)
    /\ LET batch_texts == BatchTexts(texts, eb_batch_size, eb_i)
           batch_predictions == Predict(classifier_out, batch_texts)
       IN /\ predict_calls' = Append(predict_calls, batch_texts)
          /\ eb_predictions' = eb_predictions \o
                 [k \in 1..Len(batch_predictions) |->
                     batch_predictions[k].predicted_intent]
          /\ eb_probabilities' = eb_probabilities \o
                 [k \in 1..Len(batch_predictions) |->
                     batch_predictions[k].probabilities]
    /\ eb_i' = eb_i + eb_batch_size
    /\ UNCHANGED <<eb_batch_size, evaluator_vars>>

NextEvalBatches == PredictSlice /\ UNCHANGED outside_batch_eval

SpecEvalBatches == InitEvalBatches /\ [][NextEvalBatches]_vars

\* The prediction loop has ended.
LoopEnded == eb_i >= Len(texts)

\* C26: the k-th call of the classifier gets the texts at positions
\* (k-1)B+1 .. min(kB, N), in order, a short last slice included; when the
\* loop has ended the calls cover positions 1..N, each once, and the
\* collected predictions and probabilities have length N with entry i the
\* classifier's answer for text i, next to true label i.
C26_SlicesInOrderCoverEveryText ==
    /\ \A k \in 1..Len(predict_calls) :
           LET first == (k - 1) * eb_batch_size + 1
               last == IF k * eb_batch_size < Len(texts)
                       THEN k * eb_batch_size ELSE Len(texts)
           IN /\ first <= Len(texts)
              /\ predict_calls[k] = [j \in 1..(last - first + 1) |->
                                        texts[first + j - 1]]
    /\ LoopEnded =>
           /\ Len(predict_calls) * eb_batch_size >= Len(texts)
           /\ Len(eb_predictions) = Len(texts)
           /\ Len(eb_probabilities) = Len(texts)
           /\ Len(true_labels) = Len(texts)
           /\ \A i \in 1..Len(texts) :
                  /\ eb_predictions[i] =
                         classifier_out[texts[i]].predicted_intent
                  /\ eb_probabilities[i] =
                         classifier_out[texts[i]].probabilities
           /\ eb_predictions =
                  [i \in 1..Len(texts) |->
                      PredictFrom(classifier_out, texts, eb_batch_size, 0)[i]
                          .predicted_intent]

\* C26 witness: three texts were predicted in two calls, the second on a
\* slice shorter than the batch size.
C26_Witness ==
    /\ LoopEnded
    /\ Len(texts) = 3
    /\ eb_batch_size = 2
    /\ predict_calls = <<SubSeq(texts, 1, 2), SubSeq(texts, 3, 3)>>
    /\ Len(eb_predictions) = 3

(* ====================== IntentPredictor (predict.py) ==================== *)
\* Confidences and thresholds are counted in equal steps of the unit
\* interval; a threshold may lie above every confidence.
ConfidenceValues == 0..MaxConfidence
ThresholdValues == 0..(MaxConfidence + 1)

\* One answer of the classifier for a text: the intent it predicts and the
\* probability it gives to that intent.
ClassifierAnswer(text, intent, confidence) ==
    [text |-> text, predicted_intent |-> intent, confidence |-> confidence]

\* Mutant: a confidence equal to the threshold counts as below it.
ApplyThresholdInclusive(result, confidence_threshold) ==
    IF result.confidence <= confidence_threshold
    THEN [text |-> result.text,
          predicted_intent |-> "unknown",
          confidence |-> result.confidence,
          below_threshold |-> TRUE,
          threshold_used |-> confidence_threshold]
    ELSE [text |-> result.text,
          predicted_intent |-> result.predicted_intent,
          confidence |-> result.confidence,
          below_threshold |-> FALSE]

\* Lines 87-93 and 119-125: the threshold test on one result dict; the key
\* threshold_used is added only below the threshold.
ApplyThreshold(result, confidence_threshold) ==
    IF result.confidence < confidence_threshold
    THEN [text |-> result.text,
          predicted_intent |-> "unknown",
          confidence |-> result.confidence,
          below_threshold |-> TRUE,
          threshold_used |-> confidence_threshold]
    ELSE [text |-> result.text,
          predicted_intent |-> result.predicted_intent,
          confidence |-> result.confidence,
          below_threshold |-> FALSE]

\* IntentPredictor(model_path) with its classifier loaded, and the texts a
\* caller is about to ask about.
InitPredictor ==
    /\ \E n \in 1..MaxQueries :
           /\ pr_texts = [i \in 1..n |-> i]
           /\ pr_answers \in
                  [1..n -> {ClassifierAnswer(0, c, p) :
                               c \in Range(SubSeq(INTENT_LABELS, 1, NumLabels)),
                               p \in ConfidenceValues}]
    /\ pr_threshold = 0
    /\ pr_results = <<>>
    /\ pr_call = "ready"
    /\ TrainerParked
    /\ LoaderIdle
    /\ EvaluatorIdle
    /\ StepsIdle
    /\ BatchEvalIdle
    /\ PipelineIdle

\* predict_single(text, confidence_threshold=th) for the k-th text.
PredictSingle(k, th) ==
    /\ pr_call = "ready"
    /\ k \in 1..Len(pr_texts)
    /\ pr_threshold' = th
    /\ pr_results' = <<ApplyThreshold([pr_answers[k] EXCEPT !.text = pr_texts[k]],
                                      th)>>
    /\ pr_call' = "predict_single"
    /\ UNCHANGED <<pr_texts, pr_answers>>

\* predict_batch(texts, confidence_threshold=th) for all the texts.
PredictBatch(th) ==
    /\ pr_call = "ready"
    /\ pr_threshold' = th
    /\ pr_results' = [k \in 1..Len(pr_texts) |->
                         ApplyThreshold([pr_answers[k] EXCEPT !.text = pr_texts[k]],
                                        th)]
    /\ pr_call' = "predict_batch"
    /\ UNCHANGED <<pr_texts, pr_answers>>

NextPredictor ==
    \/ /\ \E k \in 1..MaxQueries, th \in ThresholdValues : PredictSingle(k, th)
       /\ UNCHANGED outside_predictor
    \/ /\ \E th \in ThresholdValues : PredictBatch(th)
       /\ UNCHANGED outside_predictor

SpecPredictor == InitPredictor /\ [][NextPredictor]_vars

\* The text of the input that result k of the finished call is about.
InputOf(k) == IF pr_call = "predict_batch" THEN pr_texts[k] ELSE pr_results[k].text

\* C30: each result of predict_single and predict_batch is thresholded on
\* its own confidence: strictly below the threshold it is 'unknown' with
\* below_threshold true and threshold_used the threshold, otherwise it keeps
\* the classifier's intent with below_threshold false; predict_batch returns
\* one result per input in input order; the default threshold 0.0 never
\* yields 'unknown'.
C30_ThresholdPerResult ==
    pr_call \in {"predict_single", "predict_batch"} =>
        /\ pr_call = "predict_batch" => Len(pr_results) = Len(pr_texts)
        /\ pr_call = "predict_single" => Len(pr_results) = 1
        /\ \A k \in 1..Len(pr_results) :
               LET r == pr_results[k]
                   answer == pr_answers[InputOf(k)]
               IN /\ r.text = InputOf(k)
                  /\ r.confidence = answer.confidence
                  /\ answer.confidence < pr_threshold =>
                         /\ r.predicted_intent = "unknown"
                         /\ r.below_threshold = TRUE
                         /\ r.threshold_used = pr_threshold
                  /\ answer.confidence >= pr_threshold =>
                         /\ r.predicted_intent = answer.predicted_intent
                         /\ r.below_threshold = FALSE
                  /\ pr_threshold = 0 => r.predicted_intent # "unknown"

\* C30 witness: a batch of two came back with the first result below the
\* threshold and the second at it.
C30_Witness ==
    /\ pr_call = "predict_batch"
    /\ Len(pr_results) = 2
    /\ pr_results[1].predicted_intent = "unknown"
    /\ pr_results[1].threshold_used = pr_threshold
    /\ pr_results[2].below_threshold = FALSE
    /\ pr_results[2].confidence = pr_threshold

(* ================= the complete demo (examples/demo.py) ================= *)
\* The intents of label_mapping.json, which load_label_mapping gives to the
\* classifier.
KnownIntents == SubSeq(INTENT_LABELS, 1, NumLabels)

\* What a label column may hold: a known intent, or one that is missing
\* from the label mapping.
DatasetLabelValues == {KnownIntents[1], "unlisted_intent"}

\* What the label column of test.csv may hold: the same, or a second known
\* intent.
TestLabelValues == DatasetLabelValues \cup {KnownIntents[2]}

\* The longest test.csv considered.
MaxTestData == 2

\* Mutant: labels are encoded when an item is read, not at construction.
IntentDatasetLazy(labels, known) ==
    [state |-> "built", raised |-> "none", label_ids |-> <<>>]

\* classifier.encode_labels(labels): every label is mapped to its id in the
\* label mapping; a label outside the known intents is an EncodingError.
EncodeLabels(labels, known) ==
    IF \E i \in 1..Len(labels) : labels[i] \notin Range(known)
    THEN [raised |-> "EncodingError", ids |-> <<>>]
    ELSE [raised |-> "none",
          ids |-> [i \in 1..Len(labels) |-> IndexOf(known, labels[i]) - 1]]

\* IntentDataset.__init__ (train.py lines 47-65): the texts are tokenized
\* and the labels encoded at once; an exception of encode_labels leaves
\* the constructor, so no dataset object comes to exist.
IntentDataset(labels, known) ==
    LET encoded == EncodeLabels(labels, known)
    IN  IF encoded.raised # "none"
        THEN [state |-> "failed", raised |-> encoded.raised, label_ids |-> <<>>]
        ELSE [state |-> "built", raised |-> "none", label_ids |-> encoded.ids]

\* Mutant: the loop of run_complete_demo goes on after a failed step.
StepOutcomeContinue(success, next_step) == next_step

\* run_complete_demo lines 253-265: after a successful step the loop takes
\* the next step; a step that returns False or raises breaks the loop.
StepOutcome(success, next_step) == IF success THEN next_step ELSE "summary"

\* No trainer exists yet: the configuration is known, nothing is built.
TrainerAbsent ==
    /\ len_train_loader = 0
    /\ total_steps = 0
    /\ weights = 0
    /\ last_epoch = 0
    /\ optimizer_lr = Rat(0, 1)
    /\ history = [train_loss |-> <<>>, val_loss |-> <<>>,
                  val_accuracy |-> <<>>, learning_rates |-> <<>>]
    /\ best_val_loss = Inf
    /\ patience_counter = 0
    /\ best_model_state = None
    /\ pc = "absent"
    /\ epoch = 0
    /\ batch_idx = 0
    /\ total_loss = 0
    /\ val_loss = Inf
    /\ lr_used = <<>>
    /\ batch_sizes = <<>>
    /\ events = <<>>
    /\ persisted = <<>>

\* run_complete_demo is about to run its four steps; step 2 will train with
\* early_stopping_patience=2 on the two examples of train.csv and validate
\* on test.csv: load_data (train.py lines 413-416) returns the label column
\* of test.csv as val_labels, and step 3 reads the same file again.
InitPipeline ==
    /\ pl_pc = "step_1"
    /\ completed_steps = 0
    /\ caught = "none"
    /\ train_labels \in [1..2 -> DatasetLabelValues]
    /\ \E n \in 1..MaxTestData : val_labels \in [1..n -> TestLabelValues]
    /\ train_dataset = NoDataset
    /\ val_dataset = NoDataset
    /\ train_size = Len(train_labels)
    /\ batch_size = 1
    /\ num_epochs \in 0..MaxEpochs
    /\ early_stopping_patience = 2
    /\ warmup_steps = 0
    /\ learning_rate = 1
    /\ TrainerAbsent
    /\ LoaderIdle
    /\ EvaluatorIdle
    /\ StepsIdle
    /\ BatchEvalIdle
    /\ PredictorIdle

\* step_1_create_dataset (lines 72-99): the dataset files are written, or
\* an exception ends the step.
Step1CreateDataset(success) ==
    /\ pl_pc = "step_1"
    /\ pl_pc' = StepOutcome(success, "step_2_train_dataset")
    /\ completed_steps' = IF success THEN completed_steps + 1
                                     ELSE completed_steps
    /\ caught' = IF success THEN caught ELSE "Exception"
    /\ UNCHANGED <<train_labels, val_labels, train_dataset, val_dataset>>

\* step_2_train_model line 124: train_dataset = IntentDataset(...); an
\* exception is caught at line 148 and the step returns False.
Step2TrainDataset ==
    /\ pl_pc = "step_2_train_dataset"
    /\ train_dataset' = IntentDataset(train_labels, KnownIntents)
    /\ pl_pc' = StepOutcome(train_dataset'.state # "failed",
                            "step_2_val_dataset")
    /\ caught' = train_dataset'.raised
    /\ UNCHANGED <<completed_steps, train_labels, val_labels, val_dataset>>

\* step_2_train_model line 125: val_dataset = IntentDataset(...).
Step2ValDataset ==
    /\ pl_pc = "step_2_val_dataset"
    /\ val_dataset' = IntentDataset(val_labels, KnownIntents)
    /\ pl_pc' = StepOutcome(val_dataset'.state # "failed", "step_2_trainer")
    /\ caught' = val_dataset'.raised
    /\ UNCHANGED <<completed_steps, train_labels, val_labels, train_dataset>>

\* step_2_train_model lines 129-137: IntentTrainer(...) is constructed over
\* the two datasets; trainer.train(model_path) is called next.
IntentTrainerInit ==
    /\ pl_pc = "step_2_trainer"
    /\ pc = "absent"
    /\ train_dataset.state = "built"
    /\ val_dataset.state = "built"
    /\ len_train_loader' = LenLoader(train_size, batch_size)
    /\ total_steps' = TotalSteps(len_train_loader', num_epochs)
    /\ optimizer_lr' = ScheduledLr(learning_rate, 0, warmup_steps, total_steps')
    /\ pc' = "loop"
    /\ pl_pc' = "step_2_train"
    /\ UNCHANGED <<train_size, batch_size, num_epochs, early_stopping_patience,
                   warmup_steps, learning_rate, weights, last_epoch, history,
                   best_val_loss, patience_counter, best_model_state, epoch,
                   batch_idx, total_loss, val_loss, lr_used, batch_sizes,
                   events, persisted>>
    /\ UNCHANGED <<completed_steps, caught, train_labels, val_labels,
                   train_dataset, val_dataset>>

\* step_2_train_model lines 141-146: train() has returned; the final
\* validation accuracy history['val_accuracy'][-1] is printed (IndexError on
\* an empty history, caught at line 148) and the step returns.
Step2Report ==
    /\ pl_pc = "step_2_train"
    /\ pc = "done"
    /\ LET success == history.val_accuracy # <<>>
       IN /\ pl_pc' = StepOutcome(success, "step_3")
          /\ completed_steps' = IF success THEN completed_steps + 1
                                           ELSE completed_steps
          /\ caught' = IF success THEN caught ELSE "IndexError"
    /\ UNCHANGED <<train_labels, val_labels, train_dataset, val_dataset>>

\* step_3_evaluate_model lines 158-171: the persisted model is loaded,
\* test.csv is read (lines 163-165: the texts and labels step 2 validated
\* on) and IntentEvaluator(classifier) is constructed; load_model fails
\* when nothing was persisted.
Step3LoadModel ==
    /\ pl_pc = "step_3"
    /\ IF persisted = <<>>
       THEN /\ pl_pc' = StepOutcome(FALSE, "step_4")
            /\ caught' = "Exception"
            /\ UNCHANGED evaluator_vars
       ELSE /\ pl_pc' = "step_3_evaluate"
            /\ caught' = caught
            /\ label_keys' = KnownIntents
            /\ texts' = [i \in 1..Len(val_labels) |-> i]
            /\ true_labels' = val_labels
            /\ classifier_out' \in
                   {[t \in 1..Len(val_labels) |->
                        Prediction(KnownIntents, p[t], Level(t))] :
                       p \in [1..Len(val_labels) -> Range(KnownIntents)]}
            /\ ev_pc' = "evaluate"
            /\ UNCHANGED <<results, raised, printed, error_analysis, exported>>
    /\ UNCHANGED <<completed_steps, train_labels, val_labels, train_dataset,
                   val_dataset>>

\* step_3_evaluate_model: evaluate_predictions raised; the exception is
\* caught at line 185 and the step returns False.
Step3Fails ==
    /\ pl_pc = "step_3_evaluate"
    /\ ev_pc = "failed"
    /\ pl_pc' = StepOutcome(FALSE, "step_4")
    /\ caught' = raised
    /\ UNCHANGED <<completed_steps, train_labels, val_labels, train_dataset,
                   val_dataset>>

\* step_3_evaluate_model lines 175-183: after the summary,
\* save_detailed_results(results_dir) is called and the step returns True.
Step3SaveResults ==
    /\ pl_pc = "step_3_evaluate"
    /\ ev_pc = "plot_matrix"
    /\ exported' = exported \o DetailedResults(results, label_keys)
    /\ ev_pc' = "done"
    /\ pl_pc' = StepOutcome(TRUE, "step_4")
    /\ completed_steps' = completed_steps + 1
    /\ UNCHANGED <<label_keys, classifier_out, texts, true_labels, results,
                   raised, printed, error_analysis>>
    /\ UNCHANGED <<caught, train_labels, val_labels, train_dataset,
                   val_dataset>>

\* step_4_demonstrate_inference (lines 189-238): IntentPredictor(model_path)
\* is constructed and an example query goes through predict_single with the
\* default threshold.
Step4DemonstrateInference(answer) ==
    /\ pl_pc = "step_4"
    /\ pr_texts' = <<1>>
    /\ pr_answers' = <<answer>>
    /\ pr_threshold' = 0
    /\ pr_results' = <<ApplyThreshold([answer EXCEPT !.text = 1], 0)>>
    /\ pr_call' = "predict_single"
    /\ pl_pc' = StepOutcome(TRUE, "summary")
    /\ completed_steps' = completed_steps + 1
    /\ UNCHANGED <<caught, train_labels, val_labels, train_dataset,
                   val_dataset>>

\* What the demo's own statements leave alone.
outside_pipeline == <<loader_vars, step_vars, batch_eval_vars>>

\* run_complete_demo: the steps, with train() and the evaluator running
\* inside steps 2 and 3.
NextPipeline ==
    \/ /\ \E success \in BOOLEAN : Step1CreateDataset(success)
       /\ UNCHANGED <<trainer_vars, evaluator_vars, predictor_vars,
                      outside_pipeline>>
    \/ /\ Step2TrainDataset
       /\ UNCHANGED <<trainer_vars, evaluator_vars, predictor_vars,
                      outside_pipeline>>
    \/ /\ Step2ValDataset
       /\ UNCHANGED <<trainer_vars, evaluator_vars, predictor_vars,
                      outside_pipeline>>
    \/ /\ IntentTrainerInit
       /\ UNCHANGED <<evaluator_vars, predictor_vars, outside_pipeline>>
    \/ StartEpoch /\ UNCHANGED outside_trainer
    \/ LoopExhausted /\ UNCHANGED outside_trainer
    \/ /\ \E loss \in BatchLossValues : TrainBatch(loss)
       /\ UNCHANGED outside_trainer
    \/ /\ \E vl \in ValLossValues : Validate(vl, 1)
       /\ UNCHANGED outside_trainer
    \/ NewBest /\ UNCHANGED outside_trainer
    \/ NoImprovement /\ UNCHANGED outside_trainer
    \/ LoadBest /\ UNCHANGED outside_trainer
    \/ SaveModel /\ UNCHANGED outside_trainer
    \/ /\ Step2Report
       /\ UNCHANGED <<trainer_vars, evaluator_vars, predictor_vars,
                      outside_pipeline>>
    \/ /\ Step3LoadModel
       /\ UNCHANGED <<trainer_vars, predictor_vars, outside_pipeline>>
    \/ EvaluatePredictions(32) /\ UNCHANGED outside_evaluator
    \/ PrintEvaluationSummary /\ UNCHANGED outside_evaluator
    \/ /\ Step3Fails
       /\ UNCHANGED <<trainer_vars, evaluator_vars, predictor_vars,
                      outside_pipeline>>
    \/ /\ Step3SaveResults
       /\ UNCHANGED <<trainer_vars, predictor_vars, outside_pipeline>>
    \/ /\ \E c \in Range(KnownIntents), p \in ConfidenceValues :
              Step4DemonstrateInference(ClassifierAnswer(0, c, p))
       /\ UNCHANGED <<trainer_vars, evaluator_vars, outside_pipeline>>

SpecPipeline == InitPipeline /\ [][NextPipeline]_vars

\* Every label of the column is a known intent.
LabelsKnown(labels) == \A i \in 1..Len(labels) : labels[i] \in Range(KnownIntents)

\* A dataset whose construction was attempted over `labels`: built exactly
\* when every label is known, with each label's id; failed with
\* EncodingError otherwise, while no trainer exists and no batch has run.
ConstructionChecksLabels(dataset, labels) ==
    /\ dataset.state = "built" =>
           /\ LabelsKnown(labels)
           /\ Len(dataset.label_ids) = Len(labels)
           /\ \A i \in 1..Len(labels) :
                  KnownIntents[dataset.label_ids[i] + 1] = labels[i]
    /\ (dataset.state # "unbuilt" /\ ~LabelsKnown(labels)) =>
           /\ dataset.state = "failed"
           /\ dataset.raised = "EncodingError"
           /\ caught = "EncodingError"
           /\ pc = "absent"
           /\ lr_used = <<>>
           /\ batch_sizes = <<>>
           /\ history.val_loss = <<>>

\* C23: constructing an IntentDataset over a label list that holds a label
\* outside the known intents fails with EncodingError, at construction and
\* so before the trainer exists or any batch is processed; the trainer is
\* only ever built over two constructed datasets.
C23_UnknownLabelFailsAtConstruction ==
    /\ ConstructionChecksLabels(train_dataset, train_labels)
    /\ ConstructionChecksLabels(val_dataset, val_labels)
    /\ pc # "absent" => /\ train_dataset.state = "built"
                        /\ val_dataset.state = "built"

\* C23 witness: the second label of the training column is the only
\* unknown one and the construction of the training dataset has failed.
C23_Witness ==
    /\ train_labels[1] \in Range(KnownIntents)
    /\ train_labels[2] \notin Range(KnownIntents)
    /\ train_dataset.state = "failed"
    /\ train_dataset.raised = "EncodingError"
    /\ pc = "absent"

\* Where the demo is, which components are alive and what has completed
\* agree with the order of the four steps.
StepsInOrder ==
    /\ completed_steps =
           (CASE pl_pc = "step_1" -> 0
              [] pl_pc \in {"step_2_train_dataset", "step_2_val_dataset",
                            "step_2_trainer", "step_2_train"} -> 1
              [] pl_pc \in {"step_3", "step_3_evaluate"} -> 2
              [] pl_pc = "step_4" -> 3
              [] pl_pc = "summary" -> completed_steps)
    /\ train_dataset # NoDataset => completed_steps >= 1
    /\ pc \notin {"absent", "done"} =>
           /\ pl_pc = "step_2_train"
           /\ ev_pc = "idle"
           /\ pr_call = "idle"
    /\ ev_pc # "idle" =>
           /\ completed_steps >= 2
           /\ pc = "done"
           /\ Len(persisted) = 1
           /\ history.val_loss # <<>>
    /\ pr_call # "idle" =>
           /\ completed_steps = 4
           /\ ev_pc = "done"
    /\ caught # "none" =>
           /\ pl_pc = "summary"
           /\ completed_steps < 4
           /\ completed_steps = 0 => (train_dataset = NoDataset /\ pc = "absent")
           /\ completed_steps <= 1 => ev_pc = "idle"
           /\ completed_steps <= 2 => pr_call = "idle"
    /\ (pl_pc = "summary" /\ caught = "none") => completed_steps = 4

\* C24: the steps run in the order dataset creation, training, evaluation,
\* inference, each only after the one before it succeeded; training is in
\* progress only inside step 2, with no evaluator or predictor alive;
\* evaluation begins only once train() has returned and persisted its
\* checkpoint; a step that fails ends the run with the later steps
\* untouched; and nothing runs after the loop over the steps has ended.
C24_StepsInOrderStopAtFirstFailure ==
    /\ []StepsInOrder
    /\ [][/\ pl_pc # "summary"
          /\ completed_steps' \in {completed_steps, completed_steps + 1}
          /\ ev_pc' # ev_pc => pc = "done"
          /\ pc' # pc => (ev_pc = "idle" /\ pr_call = "idle")]_vars

\* C24 witness: all four steps completed, after two epochs of training.
C24_Witness ==
    /\ pl_pc = "summary"
    /\ completed_steps = 4
    /\ epoch >= 2
    /\ Len(persisted) = 1
    /\ ev_pc = "done"
    /\ pr_call = "predict_single"

====
